---- MODULE Spec2Model ----
(***************************************************************************)
(* A model of OnDA's generic algorithms (src/algorithms/                  *)
(* generic_algorithms.py): the dark calibration correction, the simple    *)
(* peak detection, the peak accumulator, the raw data averaging and the   *)
(* optical laser status.  Each object is a record holding the attributes  *)
(* its __init__ sets; each method is an operator from the object and its  *)
(* arguments to the object after the call and the value returned or the   *)
(* exception raised, and an action applies it to the object held in a     *)
(* variable.                                                               *)
(***************************************************************************)
EXTENDS Integers, Sequences, FiniteSets, TLC

VARIABLES
    main_frame,         \* the MainFrame of the hit viewer
    gui_received,       \* history: number of items received
    gui_last,           \* history: the handler that ran last
    th_object,          \* the PeakAccumulator two callers share
    th_pc,              \* per caller: the line of accumulate_peaks it is at
    th_local,           \* per caller: the count it loaded, the list it returns
    th_calls,           \* history: per caller, the calls it has started
    th_flushes,         \* history: the peak lists the calls returned
    ph_heap,            \* the Python lists in memory: identity -> elements
    ph_objects,         \* two PeakAccumulator objects, their lists by identity
    ph_calls,           \* history: number of accumulate_peaks calls
    ph_held,            \* history: the peak lists flushes returned, each with
                        \* the elements it held when it was returned
    ph_last,            \* history: the last call: the object called, the
                        \* argument and its elements before the call, and the
                        \* other object and its lists before the call
    eg_times,           \* run.times(): the events of the run
    eg_pool_size,       \* mpi_pool_size: the master and the workers
    eg_position,        \* per worker rank: events its generator has yielded
    eg_yielded,         \* history: per worker rank, the events yielded, in order
    eg_done,            \* per worker rank: the generator is exhausted
    wk_params,          \* history: the arguments each worker built its objects with
    wk_objects,         \* the DarkCalCorrection and SimplePeakDetection of each worker
    wk_calls,           \* history: frames processed by the workers so far
    wk_last,            \* the last frame processed: by whom, and the results
    pq_queue,           \* the peak lists in the queue to the accumulator, oldest first
    pq_produced,        \* how many peak lists each worker has put in the queue
    pq_dequeued,        \* history: the peak lists taken from the queue, in order
    pq_flushes,         \* history: the peak lists accumulate_peaks returned
    optical_laser_status, \* the OpticalLaserStatus object (its attributes)
    ols_event_codes,    \* the event_codes argument of the call
    ols_called,         \* whether is_optical_laser_on has been called
    ols_ret,            \* what the is_optical_laser_on call returned
    ols_raised,         \* the exception the call ended in, or NoError
    simple_peak_detection, \* the SimplePeakDetection object (its attributes)
    fp_frame,           \* the raw_data argument of the find_peaks call
    fp_called,          \* whether find_peaks has been called
    fp_ret,             \* what the find_peaks call returned
    fp_raised,          \* the exception find_peaks ended in, or NoError
    fp_candidates,      \* the pixels numpy.where found in the call, in order
    fp_windows,         \* the peak windows the call sliced out, in order
    darkcal_correction, \* the DarkCalCorrection object (its attributes)
    dc_params,          \* history: the arguments __init__ was called with
    dc_passed,          \* history: the frame passed to the last call, as it
                        \* was when the call started
    dc_arg,             \* the array passed to the last call, as it is now
    dc_ret,             \* what the last apply_darkcal_correction call returned
    dc_ret_new,         \* whether the returned array is a new array object
    dc_raised,          \* the exception the last call ended in, or NoError
    raw_data_averaging, \* the RawDataAveraging object (its attributes)
    avg_ret,            \* what the last accumulate_raw_data call returned
    avg_arg,            \* the data_as_slab argument of the last call
    avg_calls,          \* history: accumulate_raw_data calls since construction
    avg_held,           \* the array handed out by the last flush before the
                        \* last call, as its holder sees it now (None: none)
    avg_cycle,          \* history: the arguments of the calls after the last
                        \* call whose number is a multiple of accumulated_shots
    peak_accumulator,   \* the PeakAccumulator object (its attributes)
    pa_ret,             \* what the last accumulate_peaks call returned
    pa_arg,             \* the peak_list argument of the last call
    pa_calls,           \* history: accumulate_peaks calls since construction
    pa_cycle            \* history: the arguments of the calls after the last
                        \* call whose number is a multiple of accumulated_shots

paVars == <<peak_accumulator, pa_ret, pa_arg, pa_calls, pa_cycle>>

avgVars == <<raw_data_averaging, avg_ret, avg_arg, avg_calls, avg_cycle, avg_held>>

dcVars == <<darkcal_correction, dc_params, dc_passed, dc_arg, dc_ret, dc_ret_new,
           dc_raised>>

fpVars == <<simple_peak_detection, fp_frame, fp_called, fp_ret, fp_raised,
           fp_candidates, fp_windows>>

olsVars == <<optical_laser_status, ols_event_codes, ols_called, ols_ret,
            ols_raised>>

pqVars == <<pq_queue, pq_produced, pq_dequeued, pq_flushes>>

wkVars == <<wk_params, wk_objects, wk_calls, wk_last>>

egVars == <<eg_times, eg_pool_size, eg_position, eg_yielded, eg_done>>

phVars == <<ph_heap, ph_objects, ph_calls, ph_held, ph_last>>

thVars == <<th_object, th_pc, th_local, th_calls, th_flushes>>

guiVars == <<main_frame, gui_received, gui_last>>

vars == <<main_frame, gui_received, gui_last,
          th_object, th_pc, th_local, th_calls, th_flushes,
          ph_heap, ph_objects, ph_calls, ph_held, ph_last,
          eg_times, eg_pool_size, eg_position, eg_yielded, eg_done,
          wk_params, wk_objects, wk_calls, wk_last,
          pq_queue, pq_produced, pq_dequeued, pq_flushes,
          optical_laser_status, ols_event_codes, ols_called, ols_ret, ols_raised,
          simple_peak_detection, fp_frame, fp_called, fp_ret, fp_raised,
          fp_candidates, fp_windows,
          peak_accumulator, pa_ret, pa_arg, pa_calls, pa_cycle,
          raw_data_averaging, avg_ret, avg_arg, avg_calls, avg_cycle, avg_held,
          darkcal_correction, dc_params, dc_passed, dc_arg, dc_ret, dc_ret_new,
          dc_raised>>

(***************************************************************************)
(* Bounds of the model.                                                    *)
(***************************************************************************)
MaxShots == 3       \* accumulated_shots ranges over 1 .. MaxShots
MaxPeaks == 2       \* peaks in one peak list handed to accumulate_peaks
MaxCalls == 7       \* calls of one accumulate method in a behaviour
MaxPixel == 1       \* pixel values of a frame range over 0 .. MaxPixel
MaxDark == 2        \* dark calibration values range over 0 .. MaxDark
MaxGain == 2        \* gain map values range over 1 .. MaxGain
MaxShotsRoundTrip == 6  \* accumulated_shots in the round trip of the averaging
MaxCycles == 2      \* cycles of the averaging in the round trip
MaxIntensity == 2   \* pixel values of a find_peaks frame: 0 .. MaxIntensity
MaxThreshold == 1   \* the threshold of the peak detection: 0 .. MaxThreshold
MaxWindow == 2      \* the window size of the peak detection: 0 .. MaxWindow
MaxEventCode == 3   \* event codes range over 1 .. MaxEventCode
MaxLaserOnCodes == 2  \* event codes in the laser_on_event_codes tuple
MaxEventCodes == 3  \* event codes in the list of one event
MaxProduced == 2    \* peak lists one worker puts in the queue
MaxReceived == 22   \* items the hit viewer receives
MaxCallerCalls == 2 \* accumulate_peaks calls of one of the two callers
MaxHeapCalls == 4   \* accumulate_peaks calls on the two objects in memory
MaxEvents == 4      \* events in a run
MaxPoolSize == 4    \* nodes in the pool, the master included
MaxWorkerCalls == 3 \* frames the workers process in a behaviour

(***************************************************************************)
(* Python values.  A function returns None or a value.                     *)
(***************************************************************************)
None == [is_none |-> TRUE, val |-> <<>>]

Value(v) == [is_none |-> FALSE, val |-> v]

\* How a call ended: normally, or in an exception of the named class.
NoError == "none"

\* All sequences over S of length at most n.
SeqsUpTo(S, n) == UNION {[1 .. k -> S] : k \in 0 .. n}

(***************************************************************************)
(* Peak lists: a tuple of three lists, the x coordinates, the y            *)
(* coordinates and the intensities of the peaks.                           *)
(***************************************************************************)
EmptyPeakList == <<<<>>, <<>>, <<>>>>

\* The peaks the inputs are made of: <<x, y, intensity>>.
PeakPool == {<<0, 1, 5>>, <<1, 0, 6>>}

\* The peak list holding the peaks of s, in the order of s.
ToPeakList(s) ==
    <<[i \in 1 .. Len(s) |-> s[i][1]],
      [i \in 1 .. Len(s) |-> s[i][2]],
      [i \in 1 .. Len(s) |-> s[i][3]]>>

PeakLists == {ToPeakList(s) : s \in SeqsUpTo(PeakPool, MaxPeaks)}

(***************************************************************************)
(* PeakAccumulator                                                         *)
(***************************************************************************)
PeakAccumulator_init(accumulated_shots) ==
    [accumulated_shots     |-> accumulated_shots,
     accumulator           |-> EmptyPeakList,
     events_in_accumulator |-> 0]

\* list.extend on each of the three lists of the accumulator.
ExtendPeaks(accumulator, peak_list) ==
    <<accumulator[1] \o peak_list[1],
      accumulator[2] \o peak_list[2],
      accumulator[3] \o peak_list[3]>>

\* Mutant: the new peaks are put in front of the accumulated ones.
accumulate_peaks_in_front(self, peak_list) ==
    LET ext == ExtendPeaks(peak_list, self.accumulator)
        n   == self.events_in_accumulator + 1
    IN  IF n = self.accumulated_shots
        THEN [self |-> [self EXCEPT !.accumulator = EmptyPeakList,
                                    !.events_in_accumulator = 0],
              ret  |-> Value(ext)]
        ELSE [self |-> [self EXCEPT !.accumulator = ext,
                                    !.events_in_accumulator = n],
              ret  |-> None]

\* Mutant: the flush test runs before the count is incremented.
accumulate_peaks_late_test(self, peak_list) ==
    LET ext == ExtendPeaks(self.accumulator, peak_list)
    IN  IF self.events_in_accumulator = self.accumulated_shots
        THEN [self |-> [self EXCEPT !.accumulator = EmptyPeakList,
                                    !.events_in_accumulator = 0],
              ret  |-> Value(ext)]
        ELSE [self |-> [self EXCEPT !.accumulator = ext,
                                    !.events_in_accumulator = @ + 1],
              ret  |-> None]

\* Mutant: a flush leaves the accumulated lists in place.
accumulate_peaks_keep_list(self, peak_list) ==
    LET ext == ExtendPeaks(self.accumulator, peak_list)
        n   == self.events_in_accumulator + 1
    IN  IF n = self.accumulated_shots
        THEN [self |-> [self EXCEPT !.accumulator = ext,
                                    !.events_in_accumulator = 0],
              ret  |-> Value(ext)]
        ELSE [self |-> [self EXCEPT !.accumulator = ext,
                                    !.events_in_accumulator = n],
              ret  |-> None]

\* Mutant: a flush leaves the count in place.
accumulate_peaks_keep_count(self, peak_list) ==
    LET ext == ExtendPeaks(self.accumulator, peak_list)
        n   == self.events_in_accumulator + 1
    IN  IF n = self.accumulated_shots
        THEN [self |-> [self EXCEPT !.accumulator = EmptyPeakList,
                                    !.events_in_accumulator = n],
              ret  |-> Value(ext)]
        ELSE [self |-> [self EXCEPT !.accumulator = ext,
                                    !.events_in_accumulator = n],
              ret  |-> None]

\* Mutant: a flush returns the accumulated lists only when they hold peaks
\* (the truth value of the lists decides, as in "return peaks or None").
accumulate_peaks_falsy(self, peak_list) ==
    LET ext == ExtendPeaks(self.accumulator, peak_list)
        n   == self.events_in_accumulator + 1
    IN  IF n = self.accumulated_shots
        THEN [self |-> [self EXCEPT !.accumulator = EmptyPeakList,
                                    !.events_in_accumulator = 0],
              ret  |-> IF ext[1] = <<>> THEN None ELSE Value(ext)]
        ELSE [self |-> [self EXCEPT !.accumulator = ext,
                                    !.events_in_accumulator = n],
              ret  |-> None]

\* accumulate_peaks: the object after the call and the value returned.
accumulate_peaks(self, peak_list) ==
    LET ext == ExtendPeaks(self.accumulator, peak_list)
        n   == self.events_in_accumulator + 1
    IN  IF n = self.accumulated_shots
        THEN [self |-> [self EXCEPT !.accumulator = EmptyPeakList,
                                    !.events_in_accumulator = 0],
              ret  |-> Value(ext)]
        ELSE [self |-> [self EXCEPT !.accumulator = ext,
                                    !.events_in_accumulator = n],
              ret  |-> None]

InitPeakAccumulator ==
    /\ peak_accumulator \in {PeakAccumulator_init(n) : n \in 1 .. MaxShots}
    /\ pa_ret = None
    /\ pa_arg = EmptyPeakList
    /\ pa_calls = 0
    /\ pa_cycle = <<>>

\* One accumulate_peaks call on the accumulator, with its history.
CallAccumulatePeaks(peak_list) ==
    /\ LET r == accumulate_peaks(peak_accumulator, peak_list)
       IN  /\ peak_accumulator' = r.self
           /\ pa_ret' = r.ret
    /\ pa_arg' = peak_list
    /\ pa_calls' = pa_calls + 1
    /\ pa_cycle' = IF pa_calls % peak_accumulator.accumulated_shots = 0
                   THEN <<peak_list>>
                   ELSE Append(pa_cycle, peak_list)

(***************************************************************************)
(* Floating point.  numpy.zeros makes an array of float64 and, under       *)
(* "from __future__ import division", data_as_slab / accumulated_shots is  *)
(* the float64 quotient: the averaging computes in IEEE 754 binary64,      *)
(* rounding to nearest, ties to even.  A float64 x >= 0 is held exactly,   *)
(* as the integer x * 2^FracBits written in three limbs <<l2, l1, l0>>     *)
(* of value l2 * LimbBase^2 + l1 * LimbBase + l0.  Every value the model   *)
(* meets is 0 or lies in [2^-5, 2^12), where each float64 is a multiple of *)
(* 2^-FracBits and the bit a rounding looks at lies in the lowest limb.    *)
(***************************************************************************)
Mantissa == 53              \* significant bits of a float64

FracBits == 2 + Mantissa + 3

LimbBits == 20

LimbBase == 2 ^ LimbBits

\* An integer n >= 0 as a float64 (exact).
FromInt(n) == <<n * 2 ^ (FracBits - 2 * LimbBits), 0, 0>>

FZero == FromInt(0)

\* The limbs after the carries are passed up.
Carry(v) ==
    LET s1 == v[2] + v[3] \div LimbBase
    IN  <<v[1] + s1 \div LimbBase, s1 % LimbBase, v[3] % LimbBase>>

RECURSIVE Log2(_)
\* The position of the highest bit of n >= 1.
Log2(n) == IF n < 2 THEN 0 ELSE 1 + Log2(n \div 2)

\* The position of the highest bit of v # 0.
MsbPos(v) ==
    IF v[1] > 0 THEN 2 * LimbBits + Log2(v[1])
    ELSE IF v[2] > 0 THEN LimbBits + Log2(v[2])
    ELSE Log2(v[3])

\* The float64 nearest to the exact value v (plus a nonzero rest below the
\* last bit of v when sticky), ties to even.
RoundToFloat(v, sticky) ==
    IF v = <<0, 0, 0>> THEN v
    ELSE LET p == MsbPos(v) - (Mantissa - 1)   \* bits of v that do not fit
         IN  IF p <= 0 THEN v
             ELSE LET pw   == 2 ^ p
                      rest == v[3] % pw
                      half == pw \div 2
                      odd  == (v[3] \div pw) % 2 = 1
                      up   == \/ rest > half
                              \/ rest = half /\ (sticky \/ odd)
                  IN  Carry(<<v[1], v[2],
                              v[3] - rest + (IF up THEN pw ELSE 0)>>)

\* float64 addition.
FAdd(a, b) == RoundToFloat(Carry(<<a[1] + b[1], a[2] + b[2], a[3] + b[3]>>), FALSE)

\* The float64 quotient of the integers n >= 0 and d >= 1 (long division,
\* one limb at a time).
FDivInt(n, d) ==
    LET t  == FromInt(n)[1]
        r2 == t % d
        r1 == (r2 * LimbBase) % d
        r0 == (r1 * LimbBase) % d
    IN  RoundToFloat(<<t \div d, (r2 * LimbBase) \div d, (r1 * LimbBase) \div d>>,
                     r0 # 0)

(***************************************************************************)
(* Frames: 2D arrays in "slab" layout, a sequence of rows.                 *)
(***************************************************************************)
\* The array of the given shape holding v everywhere.
Filled(shape, v) == [r \in 1 .. shape[1] |-> [c \in 1 .. shape[2] |-> v]]

\* The arrays of the given shape with elements in S.
Arrays(shape, S) == [1 .. shape[1] -> [1 .. shape[2] -> S]]

\* array / scalar, element by element, as float64.
ArrayDivInt(a, d) ==
    [r \in 1 .. Len(a) |-> [c \in 1 .. Len(a[r]) |-> FDivInt(a[r][c], d)]]

\* float64 array + float64 array, element by element.
ArrayFAdd(a, b) ==
    [r \in 1 .. Len(a) |-> [c \in 1 .. Len(a[r]) |-> FAdd(a[r][c], b[r][c])]]

(***************************************************************************)
(* RawDataAveraging                                                        *)
(***************************************************************************)
RawDataAveraging_init(accumulated_shots, slab_shape) ==
    [accumulated_shots |-> accumulated_shots,
     slab_shape        |-> slab_shape,
     num_raw_data      |-> 0,
     avg_raw_data      |-> Filled(slab_shape, FZero)]

\* Mutant: the frames are summed and the sum is divided at the flush.
accumulate_raw_data_divide_last(self, data_as_slab) ==
    LET full  == self.num_raw_data = self.accumulated_shots
        num   == IF full THEN 0 ELSE self.num_raw_data
        avg   == IF full THEN Filled(self.slab_shape, FZero)
                 ELSE self.avg_raw_data
        sum   == ArrayFAdd(avg, ArrayDivInt(data_as_slab, 1))
        flush == num + 1 = self.accumulated_shots
        out   == IF flush
                 THEN [r \in 1 .. Len(sum) |-> [c \in 1 .. Len(sum[r]) |->
                          FDivInt(sum[r][c][1] \div FromInt(1)[1],
                                  self.accumulated_shots)]]
                 ELSE sum
    IN  [self |-> [self EXCEPT !.num_raw_data = num + 1, !.avg_raw_data = out],
         ret  |-> IF flush THEN Value(out) ELSE None,
         ret_is_own |-> TRUE]

\* Mutant: the frames are added without being divided.
accumulate_raw_data_no_division(self, data_as_slab) ==
    LET full  == self.num_raw_data = self.accumulated_shots
        num   == IF full THEN 0 ELSE self.num_raw_data
        avg   == IF full THEN Filled(self.slab_shape, FZero)
                 ELSE self.avg_raw_data
        sum   == ArrayFAdd(avg, ArrayDivInt(data_as_slab, 1))
    IN  [self |-> [self EXCEPT !.num_raw_data = num + 1, !.avg_raw_data = sum],
         ret  |-> IF num + 1 = self.accumulated_shots THEN Value(sum) ELSE None,
         ret_is_own |-> TRUE]

\* Mutant: the count is reset at the start of a cycle, the array is not
\* (no avg_raw_data.fill(0)).
accumulate_raw_data_no_fill(self, data_as_slab) ==
    LET full  == self.num_raw_data = self.accumulated_shots
        num   == IF full THEN 0 ELSE self.num_raw_data
        sum   == ArrayFAdd(self.avg_raw_data,
                           ArrayDivInt(data_as_slab, self.accumulated_shots))
    IN  [self |-> [self EXCEPT !.num_raw_data = num + 1, !.avg_raw_data = sum],
         ret  |-> IF num + 1 = self.accumulated_shots THEN Value(sum) ELSE None,
         ret_is_own |-> TRUE]

\* Mutant: the reset is made by the flushing call, after it took its return
\* value (as PeakAccumulator does).
accumulate_raw_data_eager(self, data_as_slab) ==
    LET sum   == ArrayFAdd(self.avg_raw_data,
                           ArrayDivInt(data_as_slab, self.accumulated_shots))
        flush == self.num_raw_data + 1 = self.accumulated_shots
    IN  [self |-> IF flush
                  THEN [self EXCEPT !.num_raw_data = 0,
                                    !.avg_raw_data = Filled(self.slab_shape, FZero)]
                  ELSE [self EXCEPT !.num_raw_data = @ + 1, !.avg_raw_data = sum],
         ret  |-> IF flush THEN Value(sum) ELSE None,
         ret_is_own |-> TRUE]

\* Mutant: the flushing call returns a copy of the array.
accumulate_raw_data_copy(self, data_as_slab) ==
    LET full  == self.num_raw_data = self.accumulated_shots
        num   == IF full THEN 0 ELSE self.num_raw_data
        avg   == IF full THEN Filled(self.slab_shape, FZero)
                 ELSE self.avg_raw_data
        sum   == ArrayFAdd(avg, ArrayDivInt(data_as_slab, self.accumulated_shots))
        after == [self EXCEPT !.num_raw_data = num + 1, !.avg_raw_data = sum]
    IN  [self |-> after,
         ret  |-> IF num + 1 = self.accumulated_shots THEN Value(sum) ELSE None,
         ret_is_own |-> FALSE]

\* accumulate_raw_data: the object after the call and the value returned
\* (the returned array is self.avg_raw_data, here with the values it holds
\* when the call returns).  self.avg_raw_data is the array __init__ made,
\* filled and added to in place: ret_is_own says that the array returned
\* is that array itself.
accumulate_raw_data(self, data_as_slab) ==
    LET full  == self.num_raw_data = self.accumulated_shots
        num   == IF full THEN 0 ELSE self.num_raw_data
        avg   == IF full THEN Filled(self.slab_shape, FZero)
                 ELSE self.avg_raw_data
        sum   == ArrayFAdd(avg, ArrayDivInt(data_as_slab, self.accumulated_shots))
        after == [self EXCEPT !.num_raw_data = num + 1, !.avg_raw_data = sum]
    IN  [self |-> after,
         ret  |-> IF num + 1 = self.accumulated_shots THEN Value(sum) ELSE None,
         ret_is_own |-> TRUE]

SlabShape == <<1, 2>>

Frames == Arrays(SlabShape, 0 .. MaxPixel)

InitRawDataAveraging ==
    /\ raw_data_averaging \in
           {RawDataAveraging_init(n, SlabShape) : n \in 1 .. MaxShots}
    /\ avg_ret = None
    /\ avg_arg = Filled(SlabShape, 0)
    /\ avg_calls = 0
    /\ avg_cycle = <<>>
    /\ avg_held = None

\* One accumulate_raw_data call on the averaging object, with its history.
CallAccumulateRawData(data_as_slab) ==
    /\ LET r == accumulate_raw_data(raw_data_averaging, data_as_slab)
           \* what an array handed out earlier holds after this call
           Seen(handed) == IF r.ret_is_own THEN Value(r.self.avg_raw_data)
                           ELSE handed
       IN  /\ raw_data_averaging' = r.self
           /\ avg_ret' = r.ret
           /\ avg_held' = IF ~avg_ret.is_none THEN Seen(avg_ret)
                          ELSE IF ~avg_held.is_none THEN Seen(avg_held)
                          ELSE None
    /\ avg_arg' = data_as_slab
    /\ avg_calls' = avg_calls + 1
    /\ avg_cycle' = IF avg_calls % raw_data_averaging.accumulated_shots = 0
                    THEN <<data_as_slab>>
                    ELSE Append(avg_cycle, data_as_slab)

(***************************************************************************)
(* DarkCalCorrection.  The calibration arrays come from hdf5 files read by *)
(* cfelpyutils; here they are arguments of __init__.  The arrays hold      *)
(* small integers, on which float64 arithmetic is exact.  An operand of    *)
(* the correction is an array or the Python scalar True.                   *)
(***************************************************************************)
PyTrue == [is_array |-> FALSE, val |-> TRUE]

NdArray(a) == [is_array |-> TRUE, val |-> a]

\* The number numpy computes with for a bool.
BoolToInt(b) == IF b THEN 1 ELSE 0

\* The shape of a two-dimensional array: <<rows, columns>>.
Shape(a) == <<Len(a), Len(a[1])>>

\* The array numpy computes with for an operand: a scalar is broadcast like
\* an array of one element.
OperandArray(m) == IF m.is_array THEN m.val ELSE <<<<BoolToInt(m.val)>>>>

\* numpy's broadcasting rule: two shapes go together when, in each
\* dimension, the sizes are equal or one of them is 1; the result has the
\* larger size, and the operand of size 1 is repeated along that dimension.
\* Shapes that do not go together make the operator raise ValueError.
Broadcastable(s, t) ==
    \A k \in 1 .. 2 : s[k] = t[k] \/ s[k] = 1 \/ t[k] = 1

BroadcastShape(s, t) ==
    [k \in 1 .. 2 |-> IF s[k] = 1 THEN t[k] ELSE s[k]]

BroadcastIndex(i, size) == IF size = 1 THEN 1 ELSE i

BroadcastAt(a, r, c) ==
    a[BroadcastIndex(r, Len(a))][BroadcastIndex(c, Len(a[1]))]

\* array * operand: element by element over the broadcast shape.
\* (The operands are bound to their values before the elements are
\* computed, and the rows and the array are made sequences by \o, so that
\* an operand that is itself a product or a difference is computed once.)
ArrayMul(a, m) ==
    CHOOSE product \in
        { [r \in 1 .. BroadcastShape(Shape(x), Shape(y))[1] |->
             [c \in 1 .. BroadcastShape(Shape(x), Shape(y))[2] |->
                BroadcastAt(x, r, c) * BroadcastAt(y, r, c)] \o <<>>] \o <<>> :
          x \in {a}, y \in {OperandArray(m)} } : TRUE

\* array - array, element by element over the broadcast shape.
ArraySub(a, b) ==
    CHOOSE difference \in
        { [r \in 1 .. BroadcastShape(Shape(x), Shape(y))[1] |->
             [c \in 1 .. BroadcastShape(Shape(x), Shape(y))[2] |->
                BroadcastAt(x, r, c) - BroadcastAt(y, r, c)] \o <<>>] \o <<>> :
          x \in {a}, y \in {b} } : TRUE

DarkCalCorrection_init(darkcal, apply_mask, mask, gain_map_correction, gain_map) ==
    [darkcal  |-> darkcal,
     mask     |-> IF apply_mask THEN NdArray(mask) ELSE PyTrue,
     gain_map |-> IF gain_map_correction THEN NdArray(gain_map) ELSE PyTrue]

\* Mutant: the mask is applied after the dark subtraction.
apply_darkcal_correction_mask_last(self, data_as_slab) ==
    LET res == ArrayMul(ArrayMul(ArraySub(data_as_slab, self.darkcal),
                                 self.mask), self.gain_map)
    IN  [self |-> self, arg |-> data_as_slab, ret |-> Value(res), new |-> TRUE,
         raised |-> NoError]

\* Mutant: the correction is computed in place, in the array passed in
\* (data_as_slab *= mask; data_as_slab -= darkcal; data_as_slab *= gain_map).
apply_darkcal_correction_in_place(self, data_as_slab) ==
    LET res == ArrayMul(ArraySub(ArrayMul(data_as_slab, self.mask),
                                 self.darkcal), self.gain_map)
    IN  [self |-> self, arg |-> res, ret |-> Value(res), new |-> FALSE,
         raised |-> NoError]

\* apply_darkcal_correction: the object and the array passed in after the
\* call, the value returned, whether it is a new array, and the exception
\* raised.  Each numpy binary operator allocates its result and leaves its
\* operands alone; the method compares no shapes itself, so the only shape
\* error is the ValueError of an operator whose operands do not broadcast.
apply_darkcal_correction(self, data_as_slab) ==
    LET masked     == ArrayMul(data_as_slab, self.mask)
        subtracted == ArraySub(masked, self.darkcal)
        res        == ArrayMul(subtracted, self.gain_map)
        ok         == /\ Broadcastable(Shape(data_as_slab),
                                       Shape(OperandArray(self.mask)))
                      /\ Broadcastable(Shape(masked), Shape(self.darkcal))
                      /\ Broadcastable(Shape(subtracted),
                                       Shape(OperandArray(self.gain_map)))
    IN  IF ok
        THEN [self |-> self, arg |-> data_as_slab, ret |-> Value(res),
              new |-> TRUE, raised |-> NoError]
        ELSE [self |-> self, arg |-> data_as_slab, ret |-> None,
              new |-> TRUE, raised |-> "ValueError"]

DarkCalParams ==
    [darkcal             : Arrays(SlabShape, 0 .. MaxDark),
     apply_mask          : BOOLEAN,
     mask                : Arrays(SlabShape, {0, 1}),
     gain_map_correction : BOOLEAN,
     gain_map            : Arrays(SlabShape, 1 .. MaxGain)]

\* The arguments that matter: a mask or a gain map that is not applied is
\* not loaded.
Loaded(p) ==
    /\ ~p.apply_mask => p.mask = Filled(SlabShape, 1)
    /\ ~p.gain_map_correction => p.gain_map = Filled(SlabShape, 1)

InitDarkCalCorrection ==
    /\ dc_params \in {p \in DarkCalParams : Loaded(p)}
    /\ darkcal_correction =
           DarkCalCorrection_init(dc_params.darkcal,
                                  dc_params.apply_mask, dc_params.mask,
                                  dc_params.gain_map_correction, dc_params.gain_map)
    /\ dc_passed = Filled(SlabShape, 0)
    /\ dc_arg = Filled(SlabShape, 0)
    /\ dc_ret = None
    /\ dc_ret_new = TRUE
    /\ dc_raised = NoError

\* One apply_darkcal_correction call on a frame.
CallApplyDarkcalCorrection(data_as_slab) ==
    /\ LET r == apply_darkcal_correction(darkcal_correction, data_as_slab)
       IN  /\ darkcal_correction' = r.self
           /\ dc_arg' = r.arg
           /\ dc_ret' = r.ret
           /\ dc_ret_new' = r.new
           /\ dc_raised' = r.raised
    /\ dc_passed' = data_as_slab
    /\ UNCHANGED dc_params

(***************************************************************************)
(* SimplePeakDetection.  A frame is a two-dimensional array of integers;   *)
(* pixel positions are counted from 0, as numpy counts them, so the pixel  *)
(* <<x, y>> of a frame is raw_data[x + 1][y + 1] here.                     *)
(***************************************************************************)
\* The names bound in the module by its import statements.
ModuleNames == {"numpy", "ndimage", "ch5"}

\* The connectivity passed to generate_binary_structure.
Connectivity == 5

\* More candidates than this and find_peaks returns no peak at all.
SillyNumberOfPeaks == 10000

Abs(i) == IF i < 0 THEN -i ELSE i

SetMax(S) == CHOOSE m \in S : \A v \in S : v <= m

\* scipy.ndimage.generate_binary_structure(2, connectivity): the 3 x 3
\* footprint of the offsets whose city-block distance from the centre is at
\* most the connectivity.
generate_binary_structure(connectivity) ==
    [dx \in -1 .. 1 |-> [dy \in -1 .. 1 |->
        Abs(dx) + Abs(dy) <= (IF connectivity < 1 THEN 1 ELSE connectivity)]]

\* The index an index beyond the array stands for in scipy's default
\* boundary mode, 'reflect': the array mirrored about its edge.
Reflect(i, size) ==
    IF i < 1 THEN 1 - i ELSE IF i > size THEN 2 * size + 1 - i ELSE i

\* scipy.ndimage.maximum_filter(raw_data, footprint=footprint): at every
\* pixel the largest value under the footprint centred on it.
maximum_filter(raw_data, footprint) ==
    LET shape   == Shape(raw_data)
        offsets == {o \in (-1 .. 1) \X (-1 .. 1) : footprint[o[1]][o[2]]}
    IN  [r \in 1 .. shape[1] |-> [c \in 1 .. shape[2] |->
            SetMax({raw_data[Reflect(r + o[1], shape[1])][Reflect(c + o[2], shape[2])] :
                    o \in offsets})]]

\* Mutant: numpy.where scanning column by column.
where_column_major(mask) ==
    LET shape     == Shape(mask)
        positions == [k \in 1 .. shape[1] * shape[2] |->
                         <<(k - 1) % shape[1], (k - 1) \div shape[1]>>]
        Holds(p)  == mask[p[1] + 1][p[2] + 1]
    IN  SelectSeq(positions, Holds)

\* numpy.where(mask == 1): the positions where the mask holds, in row-major
\* order (the tuple of index arrays, zipped).
where(mask) ==
    LET shape     == Shape(mask)
        positions == [k \in 1 .. shape[1] * shape[2] |->
                         <<(k - 1) \div shape[2], (k - 1) % shape[2]>>]
        Holds(p)  == mask[p[1] + 1][p[2] + 1]
    IN  SelectSeq(positions, Holds)

\* The indices a Python slice start:stop selects from a dimension of the
\* given size: a negative index counts from the end, and both ends are
\* clipped to the dimension.
SliceIndex(i, size) ==
    IF i < 0 THEN (IF i + size < 0 THEN 0 ELSE i + size)
    ELSE IF i > size THEN size ELSE i

PySlice(start, stop, size) ==
    LET lo == SliceIndex(start, size)
        hi == SliceIndex(stop, size)
    IN  [origin |-> lo, size |-> IF hi > lo THEN hi - lo ELSE 0]

\* raw_data[x - w : x + w + 1, y - w : y + w + 1]: a view of raw_data, held
\* as the position of its first pixel and its shape.
PeakWindow(raw_data, x_peak, y_peak, peak_window_size) ==
    LET rows == PySlice(x_peak - peak_window_size,
                        x_peak + peak_window_size + 1, Len(raw_data))
        cols == PySlice(y_peak - peak_window_size,
                        y_peak + peak_window_size + 1, Len(raw_data[1]))
    IN  [origin |-> <<rows.origin, cols.origin>>,
         shape  |-> <<rows.size, cols.size>>]

\* Mutant: the footprint of the four edge neighbours only.
SimplePeakDetection_init_cross(threshold, window_size) ==
    [threshold        |-> threshold,
     peak_window_size |-> window_size,
     neighborhood     |-> generate_binary_structure(1)]

SimplePeakDetection_init(threshold, window_size) ==
    [threshold        |-> threshold,
     peak_window_size |-> window_size,
     neighborhood     |-> generate_binary_structure(Connectivity)]

\* A coordinate scipy computes as a quotient: num / den, nan when den is 0.
RECURSIVE SumSeq(_)
SumSeq(s) == IF s = <<>> THEN 0 ELSE Head(s) + SumSeq(Tail(s))

\* scipy.ndimage.center_of_mass(window): along each dimension, the sum of
\* index times value over the sum of the values of the window.
center_of_mass(raw_data, window) ==
    LET n       == window.shape[1] * window.shape[2]
        Cell(k) == <<(k - 1) \div window.shape[2], (k - 1) % window.shape[2]>>
        At(k)   == raw_data[window.origin[1] + Cell(k)[1] + 1]
                           [window.origin[2] + Cell(k)[2] + 1]
        normalizer == SumSeq([k \in 1 .. n |-> At(k)])
    IN  [d \in 1 .. 2 |->
            [num |-> SumSeq([k \in 1 .. n |-> Cell(k)[d] * At(k)]),
             den |-> normalizer]]

\* An integer plus a quotient.
AddQuotient(i, q) == [num |-> i * q.den + q.num, den |-> q.den]

\* The body of find_peaks.  WhenEmpty is what the last branch returns.
FindPeaksBody(self, raw_data, WhenEmpty) ==
    LET shape     == Shape(raw_data)
        local_max == maximum_filter(raw_data, self.neighborhood)
        data_as_slab_peak ==
            [r \in 1 .. shape[1] |-> [c \in 1 .. shape[2] |->
                /\ raw_data[r][c] = local_max[r][c]
                /\ raw_data[r][c] > self.threshold]]
        peak_list   == where(data_as_slab_peak)
        n           == Len(peak_list)
        peak_values == [i \in 1 .. n |->
                           raw_data[peak_list[i][1] + 1][peak_list[i][2] + 1]]
        windows     == [i \in 1 .. n |->
                           PeakWindow(raw_data, peak_list[i][1], peak_list[i][2],
                                      self.peak_window_size)]
        Used(i)     == windows[i].shape[1] # 0 /\ windows[i].shape[2] # 0
        \* the first candidate whose window is handed to center_of_mass
        first_used  == CHOOSE i \in 1 .. n :
                           Used(i) /\ \A j \in 1 .. i - 1 : ~Used(j)
        Subpixel(i, d) ==
            IF Used(i)
            THEN LET offset == center_of_mass(raw_data, windows[i])
                 IN  AddQuotient(peak_list[i][d] - self.peak_window_size, offset[d])
            ELSE peak_list[i][d]
    IN  IF n > SillyNumberOfPeaks
        THEN [self |-> self, ret |-> Value(EmptyPeakList), raised |-> NoError,
              candidates |-> peak_list, windows |-> <<>>]
        ELSE IF n # 0
        THEN IF (\E i \in 1 .. n : Used(i)) /\ "scipy" \notin ModuleNames
             THEN \* the name scipy is looked up and is not bound
                  [self |-> self, ret |-> None, raised |-> "NameError",
                   candidates |-> peak_list,
                   windows |-> SubSeq(windows, 1, first_used)]
             ELSE [self |-> self,
                   ret |-> Value(<<[i \in 1 .. n |-> Subpixel(i, 1)],
                                   [i \in 1 .. n |-> Subpixel(i, 2)],
                                   peak_values>>),
                   raised |-> NoError,
                   candidates |-> peak_list, windows |-> windows]
        ELSE [self |-> self, ret |-> WhenEmpty, raised |-> NoError,
              candidates |-> peak_list, windows |-> <<>>]

\* Mutant: find_peaks returning None when it finds no candidate.
find_peaks_none_when_empty(self, raw_data) ==
    FindPeaksBody(self, raw_data, None)

\* Mutant: find_peaks raising its threshold when it finds too many peaks.
find_peaks_raising_threshold(self, raw_data) ==
    LET r == FindPeaksBody(self, raw_data, Value(EmptyPeakList))
    IN  [r EXCEPT !.self =
            IF Len(r.candidates) > SillyNumberOfPeaks
            THEN [self EXCEPT !.threshold = @ + 1] ELSE self]

\* find_peaks: the object after the call, the value returned or the
\* exception raised, the candidates numpy.where found and the windows
\* sliced out until the call ended.
find_peaks(self, raw_data) ==
    FindPeaksBody(self, raw_data, Value(EmptyPeakList))

\* The frames find_peaks is called with.
FrameShape == <<2, 3>>

SquareShape == <<3, 3>>

\* A frame that is zero except for the value v at the pixel <<x, y>>.
SinglePixelFrame(shape, x, y, v) ==
    [r \in 1 .. shape[1] |-> [c \in 1 .. shape[2] |->
        IF r = x + 1 /\ c = y + 1 THEN v ELSE 0]]

SinglePixelFrames ==
    {SinglePixelFrame(SquareShape, x, y, v) :
        x \in 0 .. SquareShape[1] - 1, y \in 0 .. SquareShape[2] - 1,
        v \in 1 .. MaxIntensity}

\* A bump that is symmetric about the middle of its two largest pixels.
BumpFrame == <<<<0, 1, MaxIntensity, MaxIntensity, 1, 0>>>>

\* Frames of one value, with as many pixels as the largest number of
\* candidates find_peaks refines, and with one pixel more.
LargeFrames ==
    {Filled(<<1, n>>, MaxIntensity) :
        n \in {SillyNumberOfPeaks, SillyNumberOfPeaks + 1}}

FindPeaksFrames ==
    Arrays(FrameShape, 0 .. MaxIntensity) \cup SinglePixelFrames \cup {BumpFrame}

InitFindPeaksOn(frames) ==
    /\ simple_peak_detection \in
           {SimplePeakDetection_init(threshold, window_size) :
               threshold \in 0 .. MaxThreshold, window_size \in 0 .. MaxWindow}
    /\ fp_frame \in frames
    /\ fp_called = FALSE
    /\ fp_ret = None
    /\ fp_raised = NoError
    /\ fp_candidates = <<>>
    /\ fp_windows = <<>>

InitSimplePeakDetection == InitFindPeaksOn(FindPeaksFrames)

\* The find_peaks call on the frame.
CallFindPeaks ==
    /\ ~fp_called
    /\ \E r \in {find_peaks(simple_peak_detection, fp_frame)} :
           /\ simple_peak_detection' = r.self
           /\ fp_ret' = r.ret
           /\ fp_raised' = r.raised
           /\ fp_candidates' = r.candidates
           /\ fp_windows' = r.windows
    /\ fp_called' = TRUE
    /\ UNCHANGED fp_frame

(***************************************************************************)
(* OpticalLaserStatus.  The event codes configured and the event codes of  *)
(* an event are each None or a sequence of integers; the event codes can   *)
(* also be a value that is no container, an integer.                       *)
(***************************************************************************)
\* A Python integer in the place of a container.
NotAContainer(n) == [is_none |-> FALSE, val |-> <<>>, scalar |-> n]

\* Whether the in operator and iteration work on the value.
IsContainer(v) == ~v.is_none /\ "scalar" \notin DOMAIN v

OpticalLaserStatus_init(role, laser_on_event_codes) ==
    [laser_on_event_codes |-> laser_on_event_codes]

\* x in event_codes, for a list of event codes.
In(x, event_codes) == \E i \in 1 .. Len(event_codes) : event_codes[i] = x

\* Mutant: any() in the place of all().
is_optical_laser_on_any(self, event_codes) ==
    IF self.laser_on_event_codes.is_none
    THEN [self |-> self, ret |-> Value(FALSE), raised |-> NoError]
    ELSE IF self.laser_on_event_codes.val # <<>> /\ ~IsContainer(event_codes)
    THEN [self |-> self, ret |-> Value(FALSE), raised |-> NoError]
    ELSE [self |-> self,
          ret  |-> Value(\E i \in 1 .. Len(self.laser_on_event_codes.val) :
                            In(self.laser_on_event_codes.val[i], event_codes.val)),
          raised |-> NoError]

\* Mutant: the expression without the try statement around it.
is_optical_laser_on_no_try(self, event_codes) ==
    IF self.laser_on_event_codes.is_none
    THEN [self |-> self, ret |-> None, raised |-> "TypeError"]
    ELSE IF self.laser_on_event_codes.val # <<>> /\ ~IsContainer(event_codes)
    THEN [self |-> self, ret |-> None, raised |-> "TypeError"]
    ELSE [self |-> self,
          ret  |-> Value(\A i \in 1 .. Len(self.laser_on_event_codes.val) :
                            In(self.laser_on_event_codes.val[i], event_codes.val)),
          raised |-> NoError]

\* is_optical_laser_on: all() over the generator of the membership tests,
\* inside a try whose bare except returns False.  Iterating over None and
\* testing membership in None or in an integer raise TypeError; the membership test is
\* evaluated only when the tuple yields a code, and all() of no test is
\* True.
is_optical_laser_on(self, event_codes) ==
    IF self.laser_on_event_codes.is_none
    THEN [self |-> self, ret |-> Value(FALSE), raised |-> NoError]
    ELSE IF self.laser_on_event_codes.val # <<>> /\ ~IsContainer(event_codes)
    THEN [self |-> self, ret |-> Value(FALSE), raised |-> NoError]
    ELSE [self |-> self,
          ret  |-> Value(\A i \in 1 .. Len(self.laser_on_event_codes.val) :
                            In(self.laser_on_event_codes.val[i], event_codes.val)),
          raised |-> NoError]

EventCodePool == 1 .. MaxEventCode

InitOpticalLaserStatus ==
    /\ optical_laser_status \in
           {OpticalLaserStatus_init("worker", codes) :
               codes \in {None} \cup
                   {Value(c) : c \in SeqsUpTo(EventCodePool, MaxLaserOnCodes)}}
    /\ ols_event_codes \in
           {None} \cup {Value(e) : e \in SeqsUpTo(EventCodePool, MaxEventCodes)}
               \cup {NotAContainer(n) : n \in EventCodePool}
    /\ ols_called = FALSE
    /\ ols_ret = None
    /\ ols_raised = NoError

\* The is_optical_laser_on call on the event codes.
CallIsOpticalLaserOn ==
    /\ ~ols_called
    /\ \E r \in {is_optical_laser_on(optical_laser_status, ols_event_codes)} :
           /\ optical_laser_status' = r.self
           /\ ols_ret' = r.ret
           /\ ols_raised' = r.raised
    /\ ols_called' = TRUE
    /\ UNCHANGED ols_event_codes

(***************************************************************************)
(* The queue between the workers and the peak accumulator.  The workers    *)
(* put the peak lists they find in one queue; one consumer takes them out, *)
(* oldest first, and calls accumulate_peaks on each before it takes the    *)
(* next.  The queue is the caller's: it is described by the specification  *)
(* of the pipeline, not by generic_algorithms.py.                          *)
(***************************************************************************)
Workers == {1, 2}

\* The peak the peak lists of a worker are made of.
WorkerPeak(w) == IF w = 1 THEN <<0, 1, 5>> ELSE <<1, 0, 6>>

\* The k-th peak list of worker w: k peaks, so that every peak list in a
\* behaviour differs from every other.
WorkerItem(w, k) == ToPeakList([i \in 1 .. k |-> WorkerPeak(w)])

IdlePeakQueue ==
    /\ pq_queue = <<>>
    /\ pq_produced = [w \in Workers |-> 0]
    /\ pq_dequeued = <<>>
    /\ pq_flushes = <<>>

\* Worker w puts its next peak list in the queue.
Produce(w) ==
    /\ pq_produced[w] < MaxProduced
    /\ pq_queue' = Append(pq_queue, WorkerItem(w, pq_produced[w] + 1))
    /\ pq_produced' = [pq_produced EXCEPT ![w] = @ + 1]
    /\ UNCHANGED <<pq_dequeued, pq_flushes, paVars>>

\* The consumer takes the oldest peak list and accumulates it.
Consume ==
    /\ pq_queue # <<>>
    /\ CallAccumulatePeaks(Head(pq_queue))
    /\ pq_queue' = Tail(pq_queue)
    /\ pq_dequeued' = Append(pq_dequeued, Head(pq_queue))
    /\ pq_flushes' = IF pa_ret'.is_none THEN pq_flushes
                     ELSE Append(pq_flushes, pa_ret'.val)
    /\ UNCHANGED pq_produced

(***************************************************************************)
(* The workers.  Each worker builds a DarkCalCorrection and a              *)
(* SimplePeakDetection of its own and, frame after frame, corrects the     *)
(* frame and finds the peaks of the corrected frame.  The dark calibration *)
(* of a worker is an array of one pixel, which numpy broadcasts to the     *)
(* shape of every frame.                                                   *)
(***************************************************************************)
WorkerObjects(params) ==
    [corrector |-> DarkCalCorrection_init(params.darkcal, FALSE, params.darkcal,
                                          FALSE, params.darkcal),
     detector  |-> SimplePeakDetection_init(params.threshold, params.window_size)]

\* The frame with more pixels above the threshold than find_peaks refines.
LargeFrame == Filled(<<1, SillyNumberOfPeaks + 1>>, MaxIntensity)

SmallFrames == SinglePixelFrames \cup {BumpFrame}

NoFrameYet ==
    [worker |-> 0, frame |-> Filled(<<1, 1>>, 0), corrected |-> None,
     peaks |-> None, raised |-> NoError, guarded |-> FALSE,
     after_guarded |-> FALSE]

\* What a worker with the given objects computes for a frame, and the
\* objects after it; guarded: find_peaks found too many peaks.
ProcessFrame(objects, frame) ==
    CHOOSE result \in UNION
        { { [objects   |-> [corrector |-> corrected.self, detector |-> found.self],
             corrected |-> corrected.ret,
             peaks     |-> found.ret,
             raised    |-> found.raised,
             guarded   |-> Len(found.candidates) > SillyNumberOfPeaks] :
            found \in {find_peaks(objects.detector, corrected.ret.val)} } :
          corrected \in {apply_darkcal_correction(objects.corrector, frame)} } : TRUE

\* The workers are built with different arguments.
InitWorkers ==
    /\ wk_params = [w \in Workers |->
                       [darkcal |-> Filled(<<1, 1>>, w - 1), threshold |-> w - 1,
                        window_size |-> 1]]
    /\ wk_objects = [w \in Workers |-> WorkerObjects(wk_params[w])]
    /\ wk_calls = 0
    /\ wk_last = NoFrameYet

IdleWorkers ==
    /\ wk_params = [w \in Workers |->
                       [darkcal |-> Filled(<<1, 1>>, 0), threshold |-> 0,
                        window_size |-> 1]]
    /\ wk_objects = [w \in Workers |-> WorkerObjects(wk_params[w])]
    /\ wk_calls = 0
    /\ wk_last = NoFrameYet

\* Worker w processes a frame.
WorkerProcesses(w, frame) ==
    /\ wk_calls < MaxWorkerCalls
    /\ \E r \in {ProcessFrame(wk_objects[w], frame)} :
           /\ wk_objects' = [wk_objects EXCEPT ![w] = r.objects]
           /\ wk_last' = [worker |-> w, frame |-> frame, corrected |-> r.corrected,
                          peaks |-> r.peaks, raised |-> r.raised,
                          guarded |-> r.guarded,
                          after_guarded |-> wk_last.worker = w /\ wk_last.guarded]
    /\ wk_calls' = wk_calls + 1
    /\ UNCHANGED wk_params

(***************************************************************************)
(* _psana_offline_event_generator: the events of a run that the worker of  *)
(* a rank processes.                                                       *)
(***************************************************************************)
\* int(numpy.ceil(x)) for a float64 x >= 0.
CeilToInt(x) ==
    LET unit == 2 ^ (FracBits - 2 * LimbBits)
    IN  x[1] \div unit
          + (IF x[1] % unit # 0 \/ x[2] # 0 \/ x[3] # 0 THEN 1 ELSE 0)

\* Mutant: the quotient rounded down.
num_events_curr_node_floor(num_times, mpi_pool_size) ==
    FDivInt(num_times, mpi_pool_size - 1)[1] \div 2 ^ (FracBits - 2 * LimbBits)

\* int(numpy.ceil(len(times) / float(mpi_pool_size - 1)))
num_events_curr_node(num_times, mpi_pool_size) ==
    CeilToInt(FDivInt(num_times, mpi_pool_size - 1))

\* times[(node_rank - 1) * n : node_rank * n]
events_curr_node(times, node_rank, mpi_pool_size) ==
    LET n     == num_events_curr_node(Len(times), mpi_pool_size)
        slice == PySlice((node_rank - 1) * n, node_rank * n, Len(times))
    IN  SubSeq(times, slice.origin + 1, slice.origin + slice.size)

WorkerRanks == 1 .. eg_pool_size - 1

InitEventGenerator ==
    /\ eg_times \in {[i \in 1 .. n |-> i] : n \in 0 .. MaxEvents}
    /\ eg_pool_size \in 2 .. MaxPoolSize
    /\ eg_position = [rank \in WorkerRanks |-> 0]
    /\ eg_yielded = [rank \in WorkerRanks |-> <<>>]
    /\ eg_done = [rank \in WorkerRanks |-> FALSE]

IdleEventGenerator ==
    /\ eg_times = <<>>
    /\ eg_pool_size = 2
    /\ eg_position = [rank \in WorkerRanks |-> 0]
    /\ eg_yielded = [rank \in WorkerRanks |-> <<>>]
    /\ eg_done = [rank \in WorkerRanks |-> FALSE]

\* The generator of a worker yields the next event of its slice.
YieldEvent(rank) ==
    LET events == events_curr_node(eg_times, rank, eg_pool_size)
    IN  /\ ~eg_done[rank]
        /\ eg_position[rank] < Len(events)
        /\ eg_position' = [eg_position EXCEPT ![rank] = @ + 1]
        /\ eg_yielded' = [eg_yielded EXCEPT
                             ![rank] = Append(@, events[eg_position[rank] + 1])]
        /\ UNCHANGED <<eg_times, eg_pool_size, eg_done>>

\* The generator of a worker is past the last event of its slice.
ExhaustEvents(rank) ==
    LET events == events_curr_node(eg_times, rank, eg_pool_size)
    IN  /\ ~eg_done[rank]
        /\ eg_position[rank] = Len(events)
        /\ eg_done' = [eg_done EXCEPT ![rank] = TRUE]
        /\ UNCHANGED <<eg_times, eg_pool_size, eg_position, eg_yielded>>

(***************************************************************************)
(* PeakAccumulator with its lists as objects in memory.  A Python list is  *)
(* an identity with the elements it holds now; a peak list is a tuple of   *)
(* three list identities.  list.extend changes the elements of a list and  *)
(* [] makes a list of a new identity.                                      *)
(***************************************************************************)
Instances == {1, 2}

\* The identities of n new lists.
NewLists(heap, n) == [k \in 1 .. n |-> Len(heap) + k]

\* The memory with n new empty lists.
Allocate(heap, n) == heap \o [k \in 1 .. n |-> <<>>]

\* The elements of the lists of a peak list.
Elements(heap, peak_list) == [k \in 1 .. 3 |-> heap[peak_list[k]]]

\* target.extend(source)
Extend(heap, target, source) == [heap EXCEPT ![target] = @ \o heap[source]]

\* __init__: self.accumulator = ([], [], [])
PeakAccumulator_init_in(heap, accumulated_shots) ==
    [heap |-> Allocate(heap, 3),
     self |-> [accumulated_shots      |-> accumulated_shots,
               accumulator            |-> NewLists(heap, 3),
               events_in_accumulator  |-> 0]]

\* Mutant: the flush empties the lists it returns and keeps them.
accumulate_peaks_in_clearing(heap, self, peak_list) ==
    LET heap1 == Extend(heap, self.accumulator[1], peak_list[1])
        heap2 == Extend(heap1, self.accumulator[2], peak_list[2])
        heap3 == Extend(heap2, self.accumulator[3], peak_list[3])
        count == self.events_in_accumulator + 1
    IN  IF count = self.accumulated_shots
        THEN [heap |-> [id \in 1 .. Len(heap3) |->
                           IF \E k \in 1 .. 3 : self.accumulator[k] = id
                           THEN <<>> ELSE heap3[id]],
              self |-> [self EXCEPT !.events_in_accumulator = 0],
              ret  |-> Value(self.accumulator)]
        ELSE [heap |-> heap3,
              self |-> [self EXCEPT !.events_in_accumulator = count],
              ret  |-> None]

\* accumulate_peaks: the memory and the object after the call, and the peak
\* list returned.
accumulate_peaks_in(heap, self, peak_list) ==
    LET heap1 == Extend(heap, self.accumulator[1], peak_list[1])
        heap2 == Extend(heap1, self.accumulator[2], peak_list[2])
        heap3 == Extend(heap2, self.accumulator[3], peak_list[3])
        count == self.events_in_accumulator + 1
    IN  IF count = self.accumulated_shots
        THEN [heap |-> Allocate(heap3, 3),
              self |-> [self EXCEPT !.accumulator = NewLists(heap3, 3),
                                    !.events_in_accumulator = 0],
              ret  |-> Value(self.accumulator)]
        ELSE [heap |-> heap3,
              self |-> [self EXCEPT !.events_in_accumulator = count],
              ret  |-> None]

\* The peak lists a caller makes: no peak or one peak.
PeakListsIn == {EmptyPeakList} \cup {ToPeakList(<<p>>) : p \in PeakPool}

NoCallYet ==
    [instance |-> 0, arg |-> <<0, 0, 0>>, arg_before |-> EmptyPeakList,
     other |-> 0, other_before |-> EmptyPeakList]

InitPeakAccumulatorObjects ==
    /\ \E n1, n2 \in 1 .. MaxShots - 1 :
          LET first  == PeakAccumulator_init_in(<<>>, n1)
              second == PeakAccumulator_init_in(first.heap, n2)
          IN  /\ ph_heap = second.heap
              /\ ph_objects = <<first.self, second.self>>
    /\ ph_calls = 0
    /\ ph_held = <<>>
    /\ ph_last = NoCallYet

IdlePeakAccumulatorObjects ==
    /\ ph_heap = Allocate(<<>>, 6)
    /\ ph_objects = <<PeakAccumulator_init_in(<<>>, 1).self,
                      PeakAccumulator_init_in(Allocate(<<>>, 3), 1).self>>
    /\ ph_calls = 0
    /\ ph_held = <<>>
    /\ ph_last = NoCallYet

\* accumulate_peaks(peak_list) on the object a, the peak list being in
\* memory already.
CallAccumulatePeaksIn(a, heap, peak_list) ==
    /\ \E r \in {accumulate_peaks_in(heap, ph_objects[a], peak_list)} :
          /\ ph_heap' = r.heap
          /\ ph_objects' = [ph_objects EXCEPT ![a] = r.self]
          /\ ph_held' = IF r.ret.is_none THEN ph_held
                        ELSE Append(ph_held,
                                    [instance  |-> a,
                                     peak_list |-> r.ret.val,
                                     elements  |-> Elements(r.heap, r.ret.val)])
    /\ ph_calls' = ph_calls + 1
    /\ ph_last' = [instance     |-> a,
                   arg          |-> peak_list,
                   arg_before   |-> Elements(heap, peak_list),
                   other        |-> ph_objects[3 - a],
                   other_before |-> Elements(heap, ph_objects[3 - a].accumulator)]

\* The caller makes a peak list and passes it.
CallWithNewPeakList(a, elements) ==
    /\ ph_calls < MaxHeapCalls
    /\ LET heap == ph_heap \o elements
       IN  CallAccumulatePeaksIn(a, heap, NewLists(ph_heap, 3))

\* The caller passes a peak list that a flush returned.
CallWithReturnedPeakList(a, i) ==
    /\ ph_calls < MaxHeapCalls
    /\ CallAccumulatePeaksIn(a, ph_heap, ph_held[i].peak_list)

(***************************************************************************)
(* PeakAccumulator called by two callers at once on one object, without    *)
(* serialization: a step is a statement of accumulate_peaks, and           *)
(* "self.events_in_accumulator += 1" is a load and a store.               *)
(***************************************************************************)
Callers == {1, 2}

\* The peak list a caller passes: one peak.
CallerPeakList(t) == WorkerItem(1, 1)

\* Mutant: the flush test is events_in_accumulator >= accumulated_shots.
flush_test_at_least(self) == self.events_in_accumulator >= self.accumulated_shots

\* line 228
flush_test(self) == self.events_in_accumulator = self.accumulated_shots

InitCallers ==
    /\ th_object \in {PeakAccumulator_init(n) : n \in 1 .. MaxShots - 1}
    /\ th_pc = [t \in Callers |-> "idle"]
    /\ th_local = [t \in Callers |-> [count |-> 0, peak_list_to_return |-> EmptyPeakList]]
    /\ th_calls = [t \in Callers |-> 0]
    /\ th_flushes = <<>>

IdleCallers ==
    /\ th_object = PeakAccumulator_init(1)
    /\ th_pc = [t \in Callers |-> "idle"]
    /\ th_local = [t \in Callers |-> [count |-> 0, peak_list_to_return |-> EmptyPeakList]]
    /\ th_calls = [t \in Callers |-> 0]
    /\ th_flushes = <<>>

\* The caller starts a call.
BeginCall(t) ==
    /\ th_pc[t] = "idle"
    /\ th_calls[t] < MaxCallerCalls
    /\ th_pc' = [th_pc EXCEPT ![t] = "extend"]
    /\ th_calls' = [th_calls EXCEPT ![t] = @ + 1]
    /\ UNCHANGED <<th_object, th_local, th_flushes>>

\* lines 223-225
ExtendLists(t) ==
    /\ th_pc[t] = "extend"
    /\ th_object' = [th_object EXCEPT
                        !.accumulator = ExtendPeaks(@, CallerPeakList(t))]
    /\ th_pc' = [th_pc EXCEPT ![t] = "load"]
    /\ UNCHANGED <<th_local, th_calls, th_flushes>>

\* line 226, the load
LoadCount(t) ==
    /\ th_pc[t] = "load"
    /\ th_local' = [th_local EXCEPT ![t].count = th_object.events_in_accumulator]
    /\ th_pc' = [th_pc EXCEPT ![t] = "store"]
    /\ UNCHANGED <<th_object, th_calls, th_flushes>>

\* line 226, the store
StoreCount(t) ==
    /\ th_pc[t] = "store"
    /\ th_object' = [th_object EXCEPT !.events_in_accumulator = th_local[t].count + 1]
    /\ th_pc' = [th_pc EXCEPT ![t] = "test"]
    /\ UNCHANGED <<th_local, th_calls, th_flushes>>

\* line 228, and line 233 when the test fails
TestCount(t) ==
    /\ th_pc[t] = "test"
    /\ th_pc' = [th_pc EXCEPT ![t] = IF flush_test(th_object) THEN "take" ELSE "idle"]
    /\ UNCHANGED <<th_object, th_local, th_calls, th_flushes>>

\* line 229
TakeLists(t) ==
    /\ th_pc[t] = "take"
    /\ th_local' = [th_local EXCEPT ![t].peak_list_to_return = th_object.accumulator]
    /\ th_pc' = [th_pc EXCEPT ![t] = "renew"]
    /\ UNCHANGED <<th_object, th_calls, th_flushes>>

\* line 230
RenewLists(t) ==
    /\ th_pc[t] = "renew"
    /\ th_object' = [th_object EXCEPT !.accumulator = EmptyPeakList]
    /\ th_pc' = [th_pc EXCEPT ![t] = "reset"]
    /\ UNCHANGED <<th_local, th_calls, th_flushes>>

\* line 231
ResetCount(t) ==
    /\ th_pc[t] = "reset"
    /\ th_object' = [th_object EXCEPT !.events_in_accumulator = 0]
    /\ th_pc' = [th_pc EXCEPT ![t] = "return"]
    /\ UNCHANGED <<th_local, th_calls, th_flushes>>

\* line 232
ReturnLists(t) ==
    /\ th_pc[t] = "return"
    /\ th_flushes' = Append(th_flushes, th_local[t].peak_list_to_return)
    /\ th_pc' = [th_pc EXCEPT ![t] = "idle"]
    /\ UNCHANGED <<th_object, th_local, th_calls>>

CallerStep(t) ==
    \/ BeginCall(t)
    \/ ExtendLists(t)
    \/ LoadCount(t)
    \/ StoreCount(t)
    \/ TestCount(t)
    \/ TakeLists(t)
    \/ RenewLists(t)
    \/ ResetCount(t)
    \/ ReturnLists(t)

(***************************************************************************)
(* The hit viewer: MainFrame keeps the last items received in a deque and  *)
(* shows one of them.  Items are numbered in the order they arrive; Qt     *)
(* runs the handlers one at a time.  displayed is the item of the last     *)
(* _update_image_plot that drew (0: none yet).                             *)
(***************************************************************************)
HistoryLength == 20

\* seq[i] in Python: a negative index counts from the end.
PyIndexable(seq, i) == -Len(seq) <= i /\ i < Len(seq)

PyItem(seq, i) == IF i < 0 THEN seq[Len(seq) + i + 1] ELSE seq[i + 1]

\* deque(maxlen=HistoryLength).append: the oldest item goes when it is full.
DequeAppend(d, x) == IF Len(d) = HistoryLength THEN Append(Tail(d), x) ELSE Append(d, x)

\* __init__, with the timer started by _init_timer.
MainFrame_init ==
    [data |-> <<>>, data_index |-> -1, timer_active |-> TRUE, displayed |-> 0,
     raised |-> NoError]

update_image_plot(self) ==
    IF self.data = <<>> THEN self
    ELSE IF ~PyIndexable(self.data, self.data_index)
    THEN [self EXCEPT !.raised = "IndexError"]
    ELSE [self EXCEPT !.displayed = PyItem(self.data, self.data_index)]

stop_stream(self) ==
    [self EXCEPT !.timer_active = FALSE, !.data_index = Len(self.data) - 1]

start_stream(self) == [self EXCEPT !.timer_active = TRUE]

\* Mutant: back steps whenever the index is not negative.
back_button_clicked_from_zero(self) ==
    LET stopped == IF self.timer_active THEN stop_stream(self) ELSE self
    IN  IF stopped.data_index >= 0
        THEN update_image_plot([stopped EXCEPT !.data_index = @ - 1])
        ELSE stopped

back_button_clicked(self) ==
    LET stopped == IF self.timer_active THEN stop_stream(self) ELSE self
    IN  IF stopped.data_index > 0
        THEN update_image_plot([stopped EXCEPT !.data_index = @ - 1])
        ELSE stopped

forward_button_clicked(self) ==
    LET stopped == IF self.timer_active THEN stop_stream(self) ELSE self
    IN  IF stopped.data_index + 1 < Len(stopped.data)
        THEN update_image_plot([stopped EXCEPT !.data_index = @ + 1])
        ELSE stopped

play_pause_button_clicked(self) ==
    IF self.timer_active THEN stop_stream(self) ELSE start_stream(self)

data_received(self, datdict) == [self EXCEPT !.data = DequeAppend(@, datdict)]

InitHitViewer ==
    /\ main_frame = MainFrame_init
    /\ gui_received = 0
    /\ gui_last = "init"

IdleHitViewer == InitHitViewer

\* The listener delivers the next item.
DataReceived ==
    /\ gui_received < MaxReceived
    /\ main_frame' = data_received(main_frame, gui_received + 1)
    /\ gui_received' = gui_received + 1
    /\ gui_last' = "data"

\* The refresh timer fires.
TimerRefresh ==
    /\ main_frame.timer_active
    /\ main_frame' = update_image_plot(main_frame)
    /\ gui_last' = "timer"
    /\ UNCHANGED gui_received

BackButtonClicked ==
    /\ main_frame' = back_button_clicked(main_frame)
    /\ gui_last' = "back"
    /\ UNCHANGED gui_received

ForwardButtonClicked ==
    /\ main_frame' = forward_button_clicked(main_frame)
    /\ gui_last' = "forward"
    /\ UNCHANGED gui_received

PlayPauseButtonClicked ==
    /\ main_frame' = play_pause_button_clicked(main_frame)
    /\ gui_last' = "play_pause"
    /\ UNCHANGED gui_received

(***************************************************************************)
(* Specifications: one per object.  The objects a specification is not     *)
(* about are constructed and never called.                                 *)
(***************************************************************************)
IdlePeakAccumulator ==
    /\ peak_accumulator = PeakAccumulator_init(1)
    /\ pa_ret = None
    /\ pa_arg = EmptyPeakList
    /\ pa_calls = 0
    /\ pa_cycle = <<>>

IdleRawDataAveraging ==
    /\ raw_data_averaging = RawDataAveraging_init(1, SlabShape)
    /\ avg_ret = None
    /\ avg_arg = Filled(SlabShape, 0)
    /\ avg_calls = 0
    /\ avg_cycle = <<>>
    /\ avg_held = None

IdleDarkCalCorrection ==
    /\ dc_params = [darkcal |-> Filled(SlabShape, 0),
                    apply_mask |-> FALSE, mask |-> Filled(SlabShape, 1),
                    gain_map_correction |-> FALSE,
                    gain_map |-> Filled(SlabShape, 1)]
    /\ darkcal_correction =
           DarkCalCorrection_init(dc_params.darkcal,
                                  dc_params.apply_mask, dc_params.mask,
                                  dc_params.gain_map_correction, dc_params.gain_map)
    /\ dc_passed = Filled(SlabShape, 0)
    /\ dc_arg = Filled(SlabShape, 0)
    /\ dc_ret = None
    /\ dc_ret_new = TRUE
    /\ dc_raised = NoError

IdleSimplePeakDetection ==
    /\ simple_peak_detection = SimplePeakDetection_init(0, 0)
    /\ fp_frame = Filled(<<1, 1>>, 0)
    /\ fp_called = FALSE
    /\ fp_ret = None
    /\ fp_raised = NoError
    /\ fp_candidates = <<>>
    /\ fp_windows = <<>>

IdleOpticalLaserStatus ==
    /\ optical_laser_status = OpticalLaserStatus_init("worker", None)
    /\ ols_event_codes = None
    /\ ols_called = FALSE
    /\ ols_ret = None
    /\ ols_raised = NoError

\* The peak accumulator alone.
NextPeakAccumulator ==
    \E peak_list \in PeakLists :
        /\ pa_calls < MaxCalls
        /\ CallAccumulatePeaks(peak_list)
        /\ UNCHANGED <<avgVars, dcVars, fpVars, olsVars, pqVars, wkVars, egVars, phVars, thVars, guiVars>>

InitSpecPeakAccumulator ==
    /\ InitPeakAccumulator
    /\ IdleRawDataAveraging
    /\ IdleDarkCalCorrection
    /\ IdleSimplePeakDetection
    /\ IdleOpticalLaserStatus
    /\ IdlePeakQueue
    /\ IdleWorkers
    /\ IdleEventGenerator
    /\ IdlePeakAccumulatorObjects
    /\ IdleCallers
    /\ IdleHitViewer

SpecPeakAccumulator == InitSpecPeakAccumulator /\ [][NextPeakAccumulator]_vars

\* The raw data averaging alone.
NextRawDataAveraging ==
    \E data_as_slab \in Frames :
        /\ avg_calls < MaxCalls
        /\ CallAccumulateRawData(data_as_slab)
        /\ UNCHANGED <<paVars, dcVars, fpVars, olsVars, pqVars, wkVars, egVars, phVars, thVars, guiVars>>

InitSpecRawDataAveraging ==
    /\ InitRawDataAveraging
    /\ IdlePeakAccumulator
    /\ IdleDarkCalCorrection
    /\ IdleSimplePeakDetection
    /\ IdleOpticalLaserStatus
    /\ IdlePeakQueue
    /\ IdleWorkers
    /\ IdleEventGenerator
    /\ IdlePeakAccumulatorObjects
    /\ IdleCallers
    /\ IdleHitViewer

SpecRawDataAveraging == InitSpecRawDataAveraging /\ [][NextRawDataAveraging]_vars

\* The two accumulators, built with the same accumulated_shots.  A behaviour
\* calls one of them: a call of one leaves the other as it is, so
\* interleaving the calls of the two reaches no further state of either.
NextAccumulators ==
    \/ avg_calls = 0 /\ NextPeakAccumulator
    \/ pa_calls = 0 /\ NextRawDataAveraging

InitSpecAccumulators ==
    /\ InitPeakAccumulator
    /\ InitRawDataAveraging
    /\ raw_data_averaging.accumulated_shots = peak_accumulator.accumulated_shots
    /\ IdleDarkCalCorrection
    /\ IdleSimplePeakDetection
    /\ IdleOpticalLaserStatus
    /\ IdlePeakQueue
    /\ IdleWorkers
    /\ IdleEventGenerator
    /\ IdlePeakAccumulatorObjects
    /\ IdleCallers
    /\ IdleHitViewer

SpecAccumulators == InitSpecAccumulators /\ [][NextAccumulators]_vars

\* The round trip of the averaging: frames of one value at every pixel, for
\* more values of accumulated_shots.
InitSpecRoundTrip ==
    /\ raw_data_averaging \in
           {RawDataAveraging_init(n, SlabShape) : n \in 1 .. MaxShotsRoundTrip}
    /\ avg_ret = None
    /\ avg_arg = Filled(SlabShape, 0)
    /\ avg_calls = 0
    /\ avg_cycle = <<>>
    /\ avg_held = None
    /\ IdlePeakAccumulator
    /\ IdleDarkCalCorrection
    /\ IdleSimplePeakDetection
    /\ IdleOpticalLaserStatus
    /\ IdlePeakQueue
    /\ IdleWorkers
    /\ IdleEventGenerator
    /\ IdlePeakAccumulatorObjects
    /\ IdleCallers
    /\ IdleHitViewer

NextRoundTrip ==
    \E c \in 0 .. MaxPixel :
        /\ avg_calls < MaxCycles * raw_data_averaging.accumulated_shots
        /\ CallAccumulateRawData(Filled(SlabShape, c))
        /\ UNCHANGED <<paVars, dcVars, fpVars, olsVars, pqVars, wkVars, egVars, phVars, thVars, guiVars>>

SpecRoundTrip == InitSpecRoundTrip /\ [][NextRoundTrip]_vars

\* The dark calibration correction alone.
NextDarkCalCorrection ==
    \E data_as_slab \in Frames :
        /\ CallApplyDarkcalCorrection(data_as_slab)
        /\ UNCHANGED <<paVars, avgVars, fpVars, olsVars, pqVars, wkVars, egVars, phVars, thVars, guiVars>>

InitSpecDarkCalCorrection ==
    /\ InitDarkCalCorrection
    /\ IdlePeakAccumulator
    /\ IdleRawDataAveraging
    /\ IdleSimplePeakDetection
    /\ IdleOpticalLaserStatus
    /\ IdlePeakQueue
    /\ IdleWorkers
    /\ IdleEventGenerator
    /\ IdlePeakAccumulatorObjects
    /\ IdleCallers
    /\ IdleHitViewer

SpecDarkCalCorrection == InitSpecDarkCalCorrection /\ [][NextDarkCalCorrection]_vars

\* The dark calibration correction on arrays of several shapes: the dark
\* calibration, the mask, the gain map and the frame each have a shape of
\* their own.
DarkCalShapes == {<<1, 2>>, <<2, 2>>, <<1, 3>>}

DarkCalShapeParams ==
    [darkcal             : {Filled(s, d) : s \in DarkCalShapes, d \in 0 .. MaxDark},
     apply_mask          : BOOLEAN,
     mask                : {Filled(s, 1) : s \in DarkCalShapes},
     gain_map_correction : BOOLEAN,
     gain_map            : {Filled(s, MaxGain) : s \in DarkCalShapes}]

ShapeFrames == UNION {Arrays(s, 0 .. MaxPixel) : s \in DarkCalShapes}

InitSpecDarkCalShapes ==
    /\ dc_params \in {p \in DarkCalShapeParams : Loaded(p)}
    /\ darkcal_correction =
           DarkCalCorrection_init(dc_params.darkcal,
                                  dc_params.apply_mask, dc_params.mask,
                                  dc_params.gain_map_correction, dc_params.gain_map)
    /\ dc_passed = Filled(SlabShape, 0)
    /\ dc_arg = Filled(SlabShape, 0)
    /\ dc_ret = None
    /\ dc_ret_new = TRUE
    /\ dc_raised = NoError
    /\ IdlePeakAccumulator
    /\ IdleRawDataAveraging
    /\ IdleSimplePeakDetection
    /\ IdleOpticalLaserStatus
    /\ IdlePeakQueue
    /\ IdleWorkers
    /\ IdleEventGenerator
    /\ IdlePeakAccumulatorObjects
    /\ IdleCallers
    /\ IdleHitViewer

NextDarkCalShapes ==
    \E data_as_slab \in ShapeFrames :
        /\ CallApplyDarkcalCorrection(data_as_slab)
        /\ UNCHANGED <<paVars, avgVars, fpVars, olsVars, pqVars, wkVars, egVars, phVars, thVars, guiVars>>

SpecDarkCalShapes == InitSpecDarkCalShapes /\ [][NextDarkCalShapes]_vars

\* The peak detection alone: one find_peaks call on a frame.
NextFindPeaks ==
    /\ CallFindPeaks
    /\ UNCHANGED <<paVars, avgVars, dcVars, olsVars, pqVars, wkVars, egVars, phVars, thVars, guiVars>>

InitSpecFindPeaks ==
    /\ InitSimplePeakDetection
    /\ IdlePeakAccumulator
    /\ IdleRawDataAveraging
    /\ IdleDarkCalCorrection
    /\ IdleOpticalLaserStatus
    /\ IdlePeakQueue
    /\ IdleWorkers
    /\ IdleEventGenerator
    /\ IdlePeakAccumulatorObjects
    /\ IdleCallers
    /\ IdleHitViewer

SpecFindPeaks == InitSpecFindPeaks /\ [][NextFindPeaks]_vars

\* The peak detection on the large frames as well.
InitSpecRunawayGuard ==
    /\ InitFindPeaksOn(FindPeaksFrames \cup LargeFrames)
    /\ IdlePeakAccumulator
    /\ IdleRawDataAveraging
    /\ IdleDarkCalCorrection
    /\ IdleOpticalLaserStatus
    /\ IdlePeakQueue
    /\ IdleWorkers
    /\ IdleEventGenerator
    /\ IdlePeakAccumulatorObjects
    /\ IdleCallers
    /\ IdleHitViewer

SpecRunawayGuard == InitSpecRunawayGuard /\ [][NextFindPeaks]_vars

\* The peak lists of the peak detection and of the peak accumulator.  A
\* behaviour calls one of the two objects, the other stays as constructed.
NextPeakLists ==
    \/ IdlePeakAccumulator /\ NextFindPeaks
    \/ IdleSimplePeakDetection /\ NextPeakAccumulator

InitSpecPeakLists ==
    /\ \/ InitSimplePeakDetection /\ IdlePeakAccumulator
       \/ IdleSimplePeakDetection /\ InitPeakAccumulator
    /\ IdleRawDataAveraging
    /\ IdleDarkCalCorrection
    /\ IdleOpticalLaserStatus
    /\ IdlePeakQueue
    /\ IdleWorkers
    /\ IdleEventGenerator
    /\ IdlePeakAccumulatorObjects
    /\ IdleCallers
    /\ IdleHitViewer

SpecPeakLists == InitSpecPeakLists /\ [][NextPeakLists]_vars

\* The optical laser status alone: one is_optical_laser_on call.
NextOpticalLaserStatus ==
    /\ CallIsOpticalLaserOn
    /\ UNCHANGED <<paVars, avgVars, dcVars, fpVars, pqVars, wkVars, egVars, phVars, thVars, guiVars>>

InitSpecOpticalLaserStatus ==
    /\ InitOpticalLaserStatus
    /\ IdlePeakAccumulator
    /\ IdleRawDataAveraging
    /\ IdleDarkCalCorrection
    /\ IdleSimplePeakDetection
    /\ IdlePeakQueue
    /\ IdleWorkers
    /\ IdleEventGenerator
    /\ IdlePeakAccumulatorObjects
    /\ IdleCallers
    /\ IdleHitViewer

SpecOpticalLaserStatus ==
    InitSpecOpticalLaserStatus /\ [][NextOpticalLaserStatus]_vars

\* The workers, the queue and the peak accumulator.
NextPeakQueue ==
    \/ \E w \in Workers : Produce(w) /\ UNCHANGED <<avgVars, dcVars, fpVars, olsVars, wkVars, egVars, phVars, thVars, guiVars>>
    \/ Consume /\ UNCHANGED <<avgVars, dcVars, fpVars, olsVars, wkVars, egVars, phVars, thVars, guiVars>>

InitSpecPeakQueue ==
    /\ InitPeakAccumulator
    /\ IdlePeakQueue
    /\ IdleRawDataAveraging
    /\ IdleDarkCalCorrection
    /\ IdleSimplePeakDetection
    /\ IdleOpticalLaserStatus
    /\ IdleWorkers
    /\ IdleEventGenerator
    /\ IdlePeakAccumulatorObjects
    /\ IdleCallers
    /\ IdleHitViewer

SpecPeakQueue == InitSpecPeakQueue /\ [][NextPeakQueue]_vars

\* The workers, each processing frames with its own objects, in any order.
\* The large frame is the first frame of a behaviour or is not in it.
NextWorkers ==
    \E w \in Workers :
        \E frame \in SmallFrames \cup (IF wk_calls = 0 THEN {LargeFrame} ELSE {}) :
            /\ WorkerProcesses(w, frame)
            /\ UNCHANGED <<paVars, avgVars, dcVars, fpVars, olsVars, pqVars, egVars, phVars, thVars, guiVars>>

InitSpecWorkers ==
    /\ InitWorkers
    /\ IdlePeakAccumulator
    /\ IdleRawDataAveraging
    /\ IdleDarkCalCorrection
    /\ IdleSimplePeakDetection
    /\ IdleOpticalLaserStatus
    /\ IdlePeakQueue
    /\ IdleEventGenerator
    /\ IdlePeakAccumulatorObjects
    /\ IdleCallers
    /\ IdleHitViewer

SpecWorkers == InitSpecWorkers /\ [][NextWorkers]_vars

\* The generators of the workers of a pool, over one run.
NextEventGenerator ==
    \/ \E rank \in WorkerRanks :
          /\ YieldEvent(rank)
          /\ UNCHANGED <<paVars, avgVars, dcVars, fpVars, olsVars, pqVars, wkVars, phVars, thVars, guiVars>>
    \/ \E rank \in WorkerRanks :
          /\ ExhaustEvents(rank)
          /\ UNCHANGED <<paVars, avgVars, dcVars, fpVars, olsVars, pqVars, wkVars, phVars, thVars, guiVars>>

InitSpecEventGenerator ==
    /\ InitEventGenerator
    /\ IdlePeakAccumulator
    /\ IdleRawDataAveraging
    /\ IdleDarkCalCorrection
    /\ IdleSimplePeakDetection
    /\ IdleOpticalLaserStatus
    /\ IdlePeakQueue
    /\ IdleWorkers
    /\ IdlePeakAccumulatorObjects
    /\ IdleCallers
    /\ IdleHitViewer

SpecEventGenerator == InitSpecEventGenerator /\ [][NextEventGenerator]_vars

\* Two PeakAccumulator objects in one memory, called in any order.
NextPeakAccumulatorObjects ==
    \/ \E a \in Instances : \E elements \in PeakListsIn :
          /\ CallWithNewPeakList(a, elements)
          /\ UNCHANGED <<paVars, avgVars, dcVars, fpVars, olsVars, pqVars, wkVars,
                         egVars, thVars, guiVars>>
    \/ \E a \in Instances : \E i \in 1 .. Len(ph_held) :
          /\ CallWithReturnedPeakList(a, i)
          /\ UNCHANGED <<paVars, avgVars, dcVars, fpVars, olsVars, pqVars, wkVars,
                         egVars, thVars, guiVars>>

InitSpecPeakAccumulatorObjects ==
    /\ InitPeakAccumulatorObjects
    /\ IdlePeakAccumulator
    /\ IdleRawDataAveraging
    /\ IdleDarkCalCorrection
    /\ IdleSimplePeakDetection
    /\ IdleOpticalLaserStatus
    /\ IdlePeakQueue
    /\ IdleWorkers
    /\ IdleEventGenerator
    /\ IdleCallers
    /\ IdleHitViewer

SpecPeakAccumulatorObjects ==
    InitSpecPeakAccumulatorObjects /\ [][NextPeakAccumulatorObjects]_vars

\* Two callers of one PeakAccumulator, their statements interleaved.
NextCallers ==
    \E t \in Callers :
        /\ CallerStep(t)
        /\ UNCHANGED <<paVars, avgVars, dcVars, fpVars, olsVars, pqVars, wkVars,
                       egVars, phVars, guiVars>>

InitSpecCallers ==
    /\ InitCallers
    /\ IdlePeakAccumulator
    /\ IdleRawDataAveraging
    /\ IdleDarkCalCorrection
    /\ IdleSimplePeakDetection
    /\ IdleOpticalLaserStatus
    /\ IdlePeakQueue
    /\ IdleWorkers
    /\ IdleEventGenerator
    /\ IdlePeakAccumulatorObjects
    /\ IdleHitViewer

SpecCallers == InitSpecCallers /\ [][NextCallers]_vars

\* The hit viewer: items arrive, the timer fires and buttons are clicked,
\* in any order.
NextHitViewer ==
    \/ DataReceived /\ UNCHANGED <<paVars, avgVars, dcVars, fpVars, olsVars, pqVars, wkVars, egVars, phVars, thVars>>
    \/ TimerRefresh /\ UNCHANGED <<paVars, avgVars, dcVars, fpVars, olsVars, pqVars, wkVars, egVars, phVars, thVars>>
    \/ BackButtonClicked /\ UNCHANGED <<paVars, avgVars, dcVars, fpVars, olsVars, pqVars, wkVars, egVars, phVars, thVars>>
    \/ ForwardButtonClicked /\ UNCHANGED <<paVars, avgVars, dcVars, fpVars, olsVars, pqVars, wkVars, egVars, phVars, thVars>>
    \/ PlayPauseButtonClicked /\ UNCHANGED <<paVars, avgVars, dcVars, fpVars, olsVars, pqVars, wkVars, egVars, phVars, thVars>>

InitSpecHitViewer ==
    /\ InitHitViewer
    /\ IdlePeakAccumulator
    /\ IdleRawDataAveraging
    /\ IdleDarkCalCorrection
    /\ IdleSimplePeakDetection
    /\ IdleOpticalLaserStatus
    /\ IdlePeakQueue
    /\ IdleWorkers
    /\ IdleEventGenerator
    /\ IdlePeakAccumulatorObjects
    /\ IdleCallers

SpecHitViewer == InitSpecHitViewer /\ [][NextHitViewer]_vars

(***************************************************************************)
(* Claims about PeakAccumulator, under SpecPeakAccumulator.                *)
(***************************************************************************)
PaShots == peak_accumulator.accumulated_shots

PaFlushCall == pa_calls > 0 /\ pa_calls % PaShots = 0

RECURSIVE Flatten(_)
\* The concatenation of the sequences of ss, in order.
Flatten(ss) == IF ss = <<>> THEN <<>> ELSE Head(ss) \o Flatten(Tail(ss))

\* C1: the k-th accumulate_peaks call since construction returns a peak list
\* if and only if k is a multiple of accumulated_shots, and None otherwise;
\* after a flush the accumulator is as it was constructed, so that the next
\* cycle goes as the first.
C1_FlushEveryNthCall ==
    /\ pa_calls > 0 => (pa_ret.is_none <=> pa_calls % PaShots # 0)
    /\ PaFlushCall => peak_accumulator = PeakAccumulator_init(PaShots)

\* The flush that ends the second cycle of three calls.
C1_Witness ==
    PaShots = 3 /\ pa_calls = 2 * PaShots /\ ~pa_ret.is_none

\* C2: the peak list returned by call number m*N is, for each of the three
\* lists, the concatenation of the lists passed to the calls (m-1)*N+1 .. m*N,
\* in call order and in input order within a call: nothing of an earlier
\* cycle, and all of this one.
C2_FlushIsConcatenationOfCycle ==
    PaFlushCall =>
        /\ ~pa_ret.is_none
        /\ Len(pa_cycle) = PaShots
        /\ \A k \in 1 .. 3 :
               pa_ret.val[k] = Flatten([i \in 1 .. Len(pa_cycle) |-> pa_cycle[i][k]])

\* A flush of the second cycle that returns at least three peaks, not all
\* the same.
C2_Witness ==
    /\ PaShots >= 2
    /\ pa_calls = 2 * PaShots
    /\ ~pa_ret.is_none
    /\ Len(pa_ret.val[1]) >= 3
    /\ \E i, j \in 1 .. Len(pa_ret.val[1]) : pa_ret.val[1][i] # pa_ret.val[1][j]

\* C3: between calls 0 <= events_in_accumulator < accumulated_shots (the
\* count never rests at accumulated_shots), and right after a flushing call
\* the count is 0 and the three lists are empty.
C3_CountBelowTarget ==
    /\ peak_accumulator.events_in_accumulator >= 0
    /\ peak_accumulator.events_in_accumulator < PaShots
    /\ ~pa_ret.is_none =>
           /\ peak_accumulator.events_in_accumulator = 0
           /\ peak_accumulator.accumulator = EmptyPeakList

\* Right after a flush that returned peaks.
C3_Witness ==
    /\ PaShots >= 2
    /\ ~pa_ret.is_none
    /\ pa_ret.val # EmptyPeakList
    /\ peak_accumulator.events_in_accumulator = 0

\* C4: a call that does not flush returns None, also when peaks are stored;
\* a flushing call whose inputs were all empty returns a tuple of three
\* empty lists, which is not None.
C4_NoneIsNotEmptyFlush ==
    /\ (pa_calls > 0 /\ ~PaFlushCall) => pa_ret = None
    /\ (PaFlushCall /\ \A i \in 1 .. Len(pa_cycle) : pa_cycle[i] = EmptyPeakList) =>
           /\ pa_ret = Value(EmptyPeakList)
           /\ pa_ret # None

\* A flush of a cycle of two or more calls that all passed an empty list.
C4_Witness ==
    /\ PaShots >= 2
    /\ PaFlushCall
    /\ \A i \in 1 .. Len(pa_cycle) : pa_cycle[i] = EmptyPeakList
    /\ pa_ret = Value(EmptyPeakList)

(***************************************************************************)
(* Claims about both accumulators, under SpecAccumulators.                 *)
(***************************************************************************)
AvgShots == raw_data_averaging.accumulated_shots

AvgFlushCall == avg_calls > 0 /\ avg_calls % AvgShots = 0

AvgZeros == Filled(raw_data_averaging.slab_shape, FZero)

\* What holds of both accumulators: the count stays within 0 .. target.
CountsInRange ==
    /\ peak_accumulator.events_in_accumulator \in 0 .. PaShots
    /\ raw_data_averaging.num_raw_data \in 0 .. AvgShots

\* A step is one accumulate call, and moves the count of the accumulator it
\* calls by one, from the target round to the start.
OneChangePerCall ==
    /\ pa_calls' # pa_calls =>
           /\ pa_calls' = pa_calls + 1
           /\ peak_accumulator'.events_in_accumulator =
                  (peak_accumulator.events_in_accumulator + 1) % PaShots
    /\ peak_accumulator' # peak_accumulator => pa_calls' = pa_calls + 1
    /\ avg_calls' # avg_calls =>
           /\ avg_calls' = avg_calls + 1
           /\ raw_data_averaging'.num_raw_data =
                  (raw_data_averaging.num_raw_data % AvgShots) + 1
    /\ raw_data_averaging' # raw_data_averaging => avg_calls' = avg_calls + 1

\* C5 as stated: both accumulators are empty when a flushing call returns.
C5_BothResetAtFlush ==
    /\ CountsInRange
    /\ ~pa_ret.is_none =>
           /\ peak_accumulator.events_in_accumulator = 0
           /\ peak_accumulator.accumulator = EmptyPeakList
    /\ ~avg_ret.is_none =>
           /\ raw_data_averaging.num_raw_data = 0
           /\ raw_data_averaging.avg_raw_data = AvgZeros

\* C5, amended: for both accumulators the count stays within 0 .. target and
\* each call changes the state once; PeakAccumulator is empty when a flushing
\* call returns; RawDataAveraging is not: its count is then accumulated_shots
\* and its array holds the average it returned.
C5_ResetAtFlushPeaksOnly ==
    /\ [](/\ CountsInRange
          /\ ~pa_ret.is_none =>
                 /\ peak_accumulator.events_in_accumulator = 0
                 /\ peak_accumulator.accumulator = EmptyPeakList
          /\ ~avg_ret.is_none =>
                 /\ raw_data_averaging.num_raw_data = AvgShots
                 /\ raw_data_averaging.avg_raw_data = avg_ret.val)
    /\ [][OneChangePerCall]_vars

\* Right after a flush of the averaging that returned a nonzero average.
C5_Witness ==
    /\ AvgShots >= 2
    /\ ~avg_ret.is_none
    /\ avg_ret.val # AvgZeros
    /\ raw_data_averaging.num_raw_data = AvgShots

(***************************************************************************)
(* Claims about RawDataAveraging, under SpecRawDataAveraging.              *)
(***************************************************************************)
RECURSIVE SumOfQuotients(_, _, _)
\* The float64 sum, in order, of frame / n over the first j frames.
SumOfQuotients(frames, j, n) ==
    IF j = 0 THEN Filled(SlabShape, FZero)
    ELSE ArrayFAdd(SumOfQuotients(frames, j - 1, n), ArrayDivInt(frames[j], n))

\* array + array of integers, element by element.
ArrayAdd(a, b) ==
    [r \in 1 .. Len(a) |-> [c \in 1 .. Len(a[r]) |-> a[r][c] + b[r][c]]]

\* C6: the k-th accumulate_raw_data call returns None unless k is a multiple
\* of N; after the j-th call of a cycle the running array is the sum of
\* frame/N over the cycle's first j frames; call number m*N returns that
\* array; for N = 2 and frames A, B the second call returns (A+B)/2.
C6_RunningArrayIsSumOfQuotients ==
    /\ avg_calls > 0 => (avg_ret.is_none <=> ~AvgFlushCall)
    /\ raw_data_averaging.avg_raw_data =
           SumOfQuotients(avg_cycle, Len(avg_cycle), AvgShots)
    /\ AvgFlushCall =>
           /\ Len(avg_cycle) = AvgShots
           /\ avg_ret.val = SumOfQuotients(avg_cycle, AvgShots, AvgShots)
    /\ (AvgFlushCall /\ AvgShots = 2) =>
           avg_ret.val = ArrayDivInt(ArrayAdd(avg_cycle[1], avg_cycle[2]), 2)

\* The flush that ends the second cycle of three frames, not all the same.
C6_Witness ==
    /\ AvgShots = 3
    /\ avg_calls = 2 * AvgShots
    /\ ~avg_ret.is_none
    /\ avg_cycle[1] # avg_cycle[2]
    /\ avg_cycle[3] # Filled(SlabShape, 0)

\* C7: after a flushing call the count stays at accumulated_shots and the
\* running array holds the returned average until the next call; that call
\* starts from count 0 and a zero array, so that after it the count is 1 and
\* the running array is its frame divided by N.
C7_LazyReset ==
    /\ [](~avg_ret.is_none =>
              /\ raw_data_averaging.num_raw_data = AvgShots
              /\ raw_data_averaging.avg_raw_data = avg_ret.val)
    /\ [][raw_data_averaging.num_raw_data = AvgShots =>
              /\ raw_data_averaging'.num_raw_data = 1
              /\ raw_data_averaging'.avg_raw_data = ArrayDivInt(avg_arg', AvgShots)]_vars

\* Right after the first call that follows a flush with a nonzero average.
C7_Witness ==
    /\ AvgShots = 2
    /\ avg_calls = AvgShots + 1
    /\ raw_data_averaging.num_raw_data = 1
    /\ avg_arg # Filled(SlabShape, 0)
    /\ raw_data_averaging.avg_raw_data = ArrayDivInt(avg_arg, AvgShots)

(***************************************************************************)
(* The round trip of the averaging, under SpecRoundTrip.                   *)
(***************************************************************************)
\* A flush of a cycle whose frames all hold c at every pixel.
RoundTripOf(c) ==
    /\ AvgFlushCall
    /\ \A i \in 1 .. Len(avg_cycle) : avg_cycle[i] = Filled(SlabShape, c)

\* |x - c| <= tol / 2^FracBits, for a float64 x, an integer c >= 0 and
\* 0 <= tol < LimbBase.
Near(x, c, tol) ==
    \/ x[1] = FromInt(c)[1] /\ x[2] = 0 /\ x[3] <= tol
    \/ x[1] = FromInt(c)[1] - 1 /\ x[2] = LimbBase - 1 /\ LimbBase - x[3] <= tol

\* C8 as stated: N frames of constant value c average to exactly c.
C8_RoundTripExact ==
    \A c \in 0 .. MaxPixel :
        RoundTripOf(c) => avg_ret.val = Filled(SlabShape, FromInt(c))

\* C8, amended: N frames of constant value c average to c up to the rounding
\* of float64: every value of the returned frame is within N * c * 2^-52 of
\* c, and is exactly c when N is 1 or 2; in the first cycle and in later ones.
C8_RoundTripWithinRounding ==
    \A c \in 0 .. MaxPixel :
        RoundTripOf(c) =>
            /\ ~avg_ret.is_none
            /\ \A r \in 1 .. SlabShape[1] : \A k \in 1 .. SlabShape[2] :
                   Near(avg_ret.val[r][k], c,
                        AvgShots * c * 2 ^ (FracBits - (Mantissa - 1)))
            /\ AvgShots \in {1, 2} => avg_ret.val = Filled(SlabShape, FromInt(c))

\* A flush of a second cycle of six frames whose average is not the value
\* the frames hold.
C8_Witness ==
    /\ AvgShots = 6
    /\ avg_calls = 2 * AvgShots
    /\ RoundTripOf(1)
    /\ avg_ret.val # Filled(SlabShape, FromInt(1))

(***************************************************************************)
(* Claims about DarkCalCorrection, under SpecDarkCalCorrection.            *)
(***************************************************************************)
\* The mask and the gain the claim speaks of: 1 where not enabled.
MaskAt(r, c) == IF dc_params.apply_mask THEN dc_params.mask[r][c] ELSE 1

GainAt(r, c) == IF dc_params.gain_map_correction THEN dc_params.gain_map[r][c] ELSE 1

\* C9: apply_darkcal_correction(f) is (f * mask - dark) * gain element by
\* element, a mask or gain map that is not enabled counting as 1; a pixel
\* whose mask value is 0 comes out as -dark * gain.
C9_CorrectionFormula ==
    ~dc_ret.is_none =>
        \A r \in 1 .. SlabShape[1] : \A c \in 1 .. SlabShape[2] :
            /\ dc_ret.val[r][c] =
                   (dc_passed[r][c] * MaskAt(r, c) - dc_params.darkcal[r][c])
                       * GainAt(r, c)
            /\ MaskAt(r, c) = 0 =>
                   dc_ret.val[r][c] = -(dc_params.darkcal[r][c] * GainAt(r, c))

\* A correction with mask and gain map, of a frame with a masked pixel that
\* holds a signal and comes out negative.
C9_Witness ==
    /\ ~dc_ret.is_none
    /\ dc_params.apply_mask
    /\ dc_params.gain_map_correction
    /\ \E c \in 1 .. SlabShape[2] :
           /\ dc_params.mask[1][c] = 0
           /\ dc_passed[1][c] > 0
           /\ dc_params.gain_map[1][c] > 1
           /\ dc_ret.val[1][c] < 0

\* C10: apply_darkcal_correction returns a new array, leaves the array passed
\* in as it was, and leaves darkcal, mask and gain_map as __init__ set them.
C10_CorrectionChangesNothing ==
    /\ dc_ret_new
    /\ dc_arg = dc_passed
    /\ darkcal_correction =
           DarkCalCorrection_init(dc_params.darkcal,
                                  dc_params.apply_mask, dc_params.mask,
                                  dc_params.gain_map_correction, dc_params.gain_map)

\* After a correction that returned values other than those passed in.
C10_Witness ==
    /\ ~dc_ret.is_none
    /\ dc_params.apply_mask
    /\ dc_ret.val # dc_passed
    /\ dc_arg = dc_passed

(***************************************************************************)
(* Claims about the shapes of the arrays of DarkCalCorrection, under       *)
(* SpecDarkCalShapes.                                                      *)
(***************************************************************************)
\* An apply_darkcal_correction call has ended: it returned an array or raised.
DcCalled == dc_raised # NoError \/ ~dc_ret.is_none

\* The frame of the last call, the dark calibration and the mask and gain
\* map that are applied all have one shape.
DcShapesAgree ==
    LET shape == Shape(dc_passed)
    IN  /\ Shape(dc_params.darkcal) = shape
        /\ dc_params.apply_mask => Shape(dc_params.mask) = shape
        /\ dc_params.gain_map_correction => Shape(dc_params.gain_map) = shape

\* C11: whenever the frame, the dark calibration, the mask and the gain map
\* do not all have exactly the same shape, the correction call ends in a
\* shape error and returns no corrected frame, also when the shapes differ
\* but broadcast against each other.
C11_ShapeMismatchFailsFast ==
    (DcCalled /\ ~DcShapesAgree) => (dc_raised = "ValueError" /\ dc_ret.is_none)

(***************************************************************************)
(* Claims about SimplePeakDetection, under SpecFindPeaks and, for the peak *)
(* lists of both objects, SpecPeakLists.                                   *)
(***************************************************************************)
FpShape == Shape(fp_frame)

FpPixels == (0 .. FpShape[1] - 1) \X (0 .. FpShape[2] - 1)

FpAt(p) == fp_frame[p[1] + 1][p[2] + 1]

FpThreshold == simple_peak_detection.threshold

FpWindowSize == simple_peak_detection.peak_window_size

\* The pixels of the frame in the 3 x 3 square centred on p.
InFrameNeighbours(p) ==
    {q \in ((p[1] - 1) .. (p[1] + 1)) \X ((p[2] - 1) .. (p[2] + 1)) :
        /\ q[1] >= 0 /\ q[1] < FpShape[1]
        /\ q[2] >= 0 /\ q[2] < FpShape[2]}

FpCandidateSet == {fp_candidates[i] : i \in 1 .. Len(fp_candidates)}

\* C12: a pixel is a candidate exactly when its value is strictly greater
\* than the threshold and no pixel of the frame in its 3 x 3 neighbourhood
\* strictly exceeds it; pixels outside the frame take no part.
C12_CandidateRule ==
    fp_called =>
        LET found == FpCandidateSet
        IN  \A p \in FpPixels :
                p \in found <=>
                    /\ FpAt(p) > FpThreshold
                    /\ \A q \in InFrameNeighbours(p) : FpAt(q) <= FpAt(p)

\* C12 witness: a plateau on the border is found, a pixel above the threshold
\* next to a larger one is not.
C12_Witness ==
    /\ fp_called
    /\ fp_frame = <<<<MaxIntensity, MaxIntensity, 1>>, <<0, 1, 0>>>>
    /\ FpThreshold = 0
    /\ fp_candidates = <<<<0, 0>>, <<0, 1>>>>

\* The pixels of the frame that are not zero.
FpNonZero == {p \in FpPixels : FpAt(p) # 0}

\* C13: on a frame that is zero except for one pixel above the threshold,
\* find_peaks returns exactly one peak, at the integer position of that
\* pixel and with its value, whatever the position and the window size.
C13_SinglePixelPeak ==
    (fp_called /\ Cardinality(FpNonZero) = 1) =>
        LET p == CHOOSE q \in FpNonZero : TRUE
        IN  FpAt(p) > FpThreshold =>
                /\ fp_raised = NoError
                /\ fp_ret = Value(<<<<p[1]>>, <<p[2]>>, <<FpAt(p)>>>>)

\* C14: with more than 10000 candidates find_peaks returns three empty
\* sequences and refines nothing; with 1 to 10000 candidates it returns
\* one peak for every candidate.
C14_RunawayGuard ==
    fp_called =>
        /\ Len(fp_candidates) > SillyNumberOfPeaks =>
               /\ fp_raised = NoError
               /\ fp_ret = Value(EmptyPeakList)
               /\ fp_windows = <<>>
        /\ (Len(fp_candidates) >= 1 /\ Len(fp_candidates) <= SillyNumberOfPeaks) =>
               /\ fp_raised = NoError
               /\ ~fp_ret.is_none
               /\ \A k \in 1 .. 3 : Len(fp_ret.val[k]) = Len(fp_candidates)

\* C15: a call that finds no candidate returns the tuple of three empty
\* sequences: it raises nothing and does not return None.
C15_NoCandidateIsEmptyResult ==
    (fp_called /\ fp_candidates = <<>>) =>
        (fp_raised = NoError /\ fp_ret = Value(EmptyPeakList))

\* C15 witness: a frame of zeros under a positive threshold.
C15_Witness ==
    /\ fp_called
    /\ fp_frame = Filled(FrameShape, 0)
    /\ FpThreshold > 0
    /\ fp_ret = Value(EmptyPeakList)

EqualLengths(peak_list) ==
    /\ Len(peak_list[1]) = Len(peak_list[2])
    /\ Len(peak_list[2]) = Len(peak_list[3])

\* The position of the pixel p in the row-major scan of the frame.
ScanIndex(p) == p[1] * FpShape[2] + p[2]

InFrameSquare(p, w) ==
    LET Low(d)  == IF p[d] - w < 0 THEN 0 ELSE p[d] - w
        High(d) == IF p[d] + w > FpShape[d] - 1 THEN FpShape[d] - 1 ELSE p[d] + w
    IN  [origin |-> <<Low(1), Low(2)>>,
         shape  |-> <<High(1) - Low(1) + 1, High(2) - Low(2) + 1>>]

WindowUsed(window) == window.shape[1] # 0 /\ window.shape[2] # 0

\* C17: the window of a candidate is the part of the square of half-width
\* window_size centred on it that lies within the frame; a window that is
\* used holds the candidate at offset (window_size, window_size) and its
\* peak is reported; the candidate of a window with an empty dimension is
\* reported at its integer position.
C17_WindowInsideFrame ==
    fp_called =>
        \A i \in 1 .. Len(fp_windows) :
            LET p      == fp_candidates[i]
                window == fp_windows[i]
            IN  /\ window = InFrameSquare(p, FpWindowSize)
                /\ WindowUsed(window) =>
                       /\ p[1] - window.origin[1] = FpWindowSize
                       /\ p[2] - window.origin[2] = FpWindowSize
                       /\ fp_raised = NoError
                /\ (~WindowUsed(window) /\ fp_raised = NoError) =>
                       /\ fp_ret.val[1][i] = p[1]
                       /\ fp_ret.val[2][i] = p[2]

\* C18: find_peaks raises no exception, also on a frame with a candidate
\* whose window has no empty dimension.
C18_NoException == fp_called => fp_raised = NoError

\* Twice the distance of a coordinate from the middle of the bump, times
\* the denominator of the coordinate.
BumpDistance(q) == Abs(2 * q.num - 5 * q.den)

\* C19: on the bump whose true centre is the middle of the pixels 2 and 3
\* of its row, with a window that covers the bump, every peak find_peaks
\* returns is strictly closer to the true centre than its integer pixel.
C19_RefinementIsCloser ==
    (fp_called /\ fp_frame = BumpFrame /\ FpThreshold < MaxIntensity
               /\ FpWindowSize >= 2) =>
        /\ fp_raised = NoError
        /\ ~fp_ret.is_none
        /\ Len(fp_ret.val[2]) = Len(fp_candidates)
        /\ Len(fp_candidates) > 0
        /\ \A i \in 1 .. Len(fp_candidates) :
               BumpDistance(fp_ret.val[2][i]) <
                   BumpDistance([num |-> fp_candidates[i][2], den |-> 1])
                       * fp_ret.val[2][i].den

(***************************************************************************)
(* Claims about OpticalLaserStatus, under SpecOpticalLaserStatus.          *)
(***************************************************************************)
\* The codes of a sequence of event codes, as a set.
CodeSet(codes) == {codes[i] : i \in 1 .. Len(codes)}

OlsConfigured == optical_laser_status.laser_on_event_codes

\* C20: with a non-empty set of laser-on event codes, is_optical_laser_on
\* returns True exactly when every configured code is among the event codes
\* of the event: for the codes 1 and 2, True on 1, 2, 3 and False on 1 alone
\* and on no code at all.
C20_OnIffAllCodesPresent ==
    (/\ ols_called
     /\ ~OlsConfigured.is_none
     /\ OlsConfigured.val # <<>>
     /\ IsContainer(ols_event_codes)) =>
        /\ ols_raised = NoError
        /\ ols_ret = Value(CodeSet(OlsConfigured.val) \subseteq
                               CodeSet(ols_event_codes.val))
        /\ OlsConfigured.val = <<1, 2>> =>
               /\ ols_event_codes.val = <<1, 2, 3>> => ols_ret = Value(TRUE)
               /\ ols_event_codes.val = <<1>> => ols_ret = Value(FALSE)
               /\ ols_event_codes.val = <<>> => ols_ret = Value(FALSE)

\* C20 witness: the codes 1 and 2 are configured and the event has 1, 2, 3.
C20_Witness ==
    /\ ols_called
    /\ OlsConfigured = Value(<<1, 2>>)
    /\ ols_event_codes = Value(<<1, 2, 3>>)
    /\ ols_ret = Value(TRUE)

\* C21: with an empty tuple of laser-on event codes, is_optical_laser_on
\* returns False whatever the event codes of the event are.
C21_EmptyConfigurationIsOff ==
    (ols_called /\ OlsConfigured = Value(<<>>)) => ols_ret = Value(FALSE)

\* C22: is_optical_laser_on raises nothing; it returns False when the
\* configured codes are None, and when they are not empty and the event
\* codes are None or no container; the call leaves the object as it was.
C22_FailureNeverPropagates ==
    /\ [](ols_called =>
             /\ ols_raised = NoError
             /\ OlsConfigured.is_none => ols_ret = Value(FALSE)
             /\ (/\ ~OlsConfigured.is_none
                 /\ OlsConfigured.val # <<>>
                 /\ ~IsContainer(ols_event_codes)) => ols_ret = Value(FALSE))
    /\ [][optical_laser_status' = optical_laser_status]_vars

\* C22 witness: codes are configured and the event codes are an integer.
C22_Witness ==
    /\ ols_called
    /\ OlsConfigured = Value(<<1>>)
    /\ ols_event_codes = NotAContainer(1)
    /\ ols_ret = Value(FALSE)

(***************************************************************************)
(* Claims about the queue to the peak accumulator, under SpecPeakQueue.    *)
(***************************************************************************)
\* The peak list holding the peaks of the peak lists of items, in order.
ConcatPeakLists(items) ==
    [k \in 1 .. 3 |-> Flatten([i \in 1 .. Len(items) |-> items[i][k]])]

\* C23: whatever the order in which the workers put their peak lists in the
\* queue, the k-th flush holds the peaks of the k-th group of
\* accumulated_shots peak lists taken from the queue, in the order they were
\* taken, and the peak lists taken after the last flush are the ones in the
\* accumulator: none is lost, in two flushes or split.
C23_FlushesPartitionDequeued ==
    /\ Len(pq_flushes) = Len(pq_dequeued) \div PaShots
    /\ \A k \in 1 .. Len(pq_flushes) :
           pq_flushes[k] =
               ConcatPeakLists(SubSeq(pq_dequeued, (k - 1) * PaShots + 1, k * PaShots))
    /\ peak_accumulator.accumulator =
           ConcatPeakLists(SubSeq(pq_dequeued, Len(pq_flushes) * PaShots + 1,
                                  Len(pq_dequeued)))

\* C23 witness: two flushes of two peak lists each, the peak lists of the
\* two workers interleaved.
C23_Witness ==
    /\ PaShots = 2
    /\ Len(pq_flushes) = 2
    /\ pq_dequeued = <<WorkerItem(2, 1), WorkerItem(1, 1),
                       WorkerItem(1, 2), WorkerItem(2, 2)>>

(***************************************************************************)
(* Claims about the workers, under SpecWorkers.                            *)
(***************************************************************************)
\* C24: the objects of a worker stay as they were built, and what a worker
\* computes for a frame is what objects just built with its arguments
\* compute for it, whatever frames it and the other worker processed
\* before, also after a frame on which find_peaks found too many peaks.
C24_WorkersKeepNoState ==
    /\ \A w \in Workers : wk_objects[w] = WorkerObjects(wk_params[w])
    /\ wk_calls > 0 =>
           \A fresh \in {ProcessFrame(WorkerObjects(wk_params[wk_last.worker]),
                                      wk_last.frame)} :
               /\ wk_last.corrected = fresh.corrected
               /\ wk_last.peaks = fresh.peaks
               /\ wk_last.raised = fresh.raised

\* C24 witness: a worker returns a peak for the frame it processes after the
\* frame on which find_peaks found too many peaks.
C24_Witness ==
    /\ wk_last.after_guarded
    /\ wk_last.frame = SinglePixelFrame(SquareShape, 0, 0, 1)
    /\ wk_last.peaks = Value(<<<<0>>, <<0>>, <<1>>>>)

(***************************************************************************)
(* Claims about _psana_offline_event_generator, under SpecEventGenerator.  *)
(***************************************************************************)
\* The number of times the worker of the rank has yielded the event.
TimesYielded(rank, evt) ==
    Cardinality({i \in 1 .. Len(eg_yielded[rank]) : eg_yielded[rank][i] = evt})

EgAllDone == \A rank \in WorkerRanks : eg_done[rank]

\* C25: no event of the run is yielded twice or by two workers, every
\* worker yields its events in the order of the run, and once all the
\* generators are exhausted every event of the run was yielded by one worker.
C25_SlicesPartitionTheRun ==
    /\ \A i \in 1 .. Len(eg_times) :
           LET total == [rank \in WorkerRanks |-> TimesYielded(rank, eg_times[i])]
               owners == {rank \in WorkerRanks : total[rank] > 0}
           IN  /\ Cardinality(owners) <= 1
               /\ \A rank \in owners : total[rank] = 1
               /\ EgAllDone => Cardinality(owners) = 1
    /\ \A rank \in WorkerRanks :
           \A i, j \in 1 .. Len(eg_yielded[rank]) :
               i < j => eg_yielded[rank][i] < eg_yielded[rank][j]

\* C25 witness: a run whose events do not divide evenly (4 events, 3
\* workers), all generators exhausted, the last worker left with no event.
C25_Witness ==
    /\ Len(eg_times) = 4
    /\ eg_pool_size = 4
    /\ EgAllDone
    /\ eg_yielded[3] = <<>>
    /\ eg_yielded[1] = <<1, 2>>

(***************************************************************************)
(* Claims about the array accumulate_raw_data returns, under               *)
(* SpecRawDataAveraging.                                                   *)
(***************************************************************************)
\* The last call was the one after a flushing call.
AvgAfterFlush ==
    /\ avg_calls > AvgShots
    /\ (avg_calls - 1) % AvgShots = 0

\* C26: the array a flush returned is the running array itself: whoever holds
\* it sees the running array, and after the next call sees that call's
\* frame / N in it; for N = 1 the next flush returns the same array.
C26_FlushReturnsOwnArray ==
    /\ ~avg_held.is_none => avg_held.val = raw_data_averaging.avg_raw_data
    /\ AvgAfterFlush => avg_held = Value(ArrayDivInt(avg_arg, AvgShots))
    /\ AvgAfterFlush /\ AvgShots = 1 => avg_held = avg_ret

\* C26 witness: after two frames of 1 averaged over 2 shots (returned: 1
\* everywhere) and a third frame of 0 and 1, the array returned holds 0 and
\* 1/2.
C26_Witness ==
    /\ AvgShots = 2
    /\ avg_calls = 3
    /\ avg_arg = <<<<0, 1>>>>
    /\ avg_ret.is_none
    /\ avg_held = Value(<<<<FZero, FDivInt(1, 2)>>>>)

(***************************************************************************)
(* Claims about the lists of PeakAccumulator, under                        *)
(* SpecPeakAccumulatorObjects.                                             *)
(***************************************************************************)
\* C27: every peak list a flush returned holds the elements it held when it
\* was returned; the argument of the last call holds the elements it held
\* before the call; the other object and its lists are as before the call.
C27_ListsAreNotShared ==
    /\ \A i \in 1 .. Len(ph_held) :
           Elements(ph_heap, ph_held[i].peak_list) = ph_held[i].elements
    /\ ph_calls > 0 =>
           /\ Elements(ph_heap, ph_last.arg) = ph_last.arg_before
           /\ ph_objects[3 - ph_last.instance] = ph_last.other
           /\ Elements(ph_heap, ph_last.other.accumulator) = ph_last.other_before

\* C27 witness: a flush returned a peak list with a peak, and a later call
\* on the same object added a peak to the lists of that object.
C27_Witness ==
    /\ Len(ph_held) > 0
    /\ ph_held[1].elements # EmptyPeakList
    /\ ph_calls > 0
    /\ ph_last.arg_before # EmptyPeakList
    /\ ph_held[1].instance = ph_last.instance
    /\ ph_objects[ph_last.instance].events_in_accumulator = 1
    /\ Elements(ph_heap, ph_objects[ph_last.instance].accumulator)
           = ph_last.arg_before

(***************************************************************************)
(* Claims about calls that are not serialized, under SpecCallers.          *)
(***************************************************************************)
\* The count is past accumulated_shots and no call is past a flush test
\* that held.
CountHasPassed ==
    /\ th_object.events_in_accumulator > th_object.accumulated_shots
    /\ \A t \in Callers : th_pc[t] \in {"idle", "extend", "load", "store", "test"}

\* C28 as stated: once the count is past accumulated_shots (and no call is
\* past a flush test that held), it stays so and no call returns a peak list.
C28_NoFlushOnceCountHasPassed ==
    [][CountHasPassed => CountHasPassed' /\ th_flushes' = th_flushes]_vars

\* The count is past accumulated_shots, no call is past a flush test that
\* held, and no call is about to store a count that is not past it.
CountStaysPassed ==
    /\ CountHasPassed
    /\ \A t \in Callers :
           th_pc[t] = "store" => th_local[t].count + 1 > th_object.accumulated_shots

\* C28, amended: once the count is past accumulated_shots and no call in
\* progress loaded a count from before, it stays so and no call returns a
\* peak list.
C28_NoFlushWhileCountStaysPassed ==
    [][CountStaysPassed => CountStaysPassed' /\ th_flushes' = th_flushes]_vars

\* C28 witness: accumulated_shots is 1, both callers incremented the count
\* before either tested it, a third call followed, all calls returned None,
\* and the object holds the peaks of the three with its count at 3.
C28_Witness ==
    /\ th_object.accumulated_shots = 1
    /\ th_object.events_in_accumulator = 3
    /\ \A t \in Callers : th_pc[t] = "idle"
    /\ th_calls[1] + th_calls[2] = 3
    /\ th_flushes = <<>>
    /\ Len(th_object.accumulator[1]) = 3

(***************************************************************************)
(* Claims about the hit viewer, under SpecHitViewer.                       *)
(***************************************************************************)
GuiIndexInRange ==
    /\ Len(main_frame.data) <= HistoryLength
    /\ -1 <= main_frame.data_index
    /\ main_frame.data_index <= Len(main_frame.data) - 1
    /\ main_frame.raised = NoError

\* C29: the history holds at most 20 items, the index stays between -1 and
\* the last position, no _update_image_plot fails on its index, a back
\* click that lowers the index leaves it at 0 or above and a forward click
\* that raises it leaves it at the newest item or below.
C29_IndexStaysInHistory ==
    /\ []GuiIndexInRange
    /\ [][/\ ((gui_last' = "back"
                    /\ main_frame'.data_index < main_frame.data_index)
                  => main_frame'.data_index >= 0)
           /\ ((gui_last' = "forward"
                    /\ main_frame'.data_index > main_frame.data_index)
                  => main_frame'.data_index <= Len(main_frame'.data) - 1)]_vars

\* C29 witness: with more items received than the history holds, back
\* clicks reached the oldest item kept.
C29_Witness ==
    /\ gui_received > HistoryLength
    /\ gui_last = "back"
    /\ main_frame.data_index = 0
    /\ main_frame.displayed = gui_received - HistoryLength + 1

\* C30: after a timer refresh with items in the history, the item displayed
\* is the one received last.
C30_TimerShowsNewest ==
    (gui_last = "timer" /\ main_frame.data # <<>>)
        => main_frame.displayed = gui_received

====
